---- MODULE Spec2Model ----
(***************************************************************************)
(* A model of the PATCH-diff engine of albert-python: the metadata differ  *)
(* and the generic patch builder of BaseCollection, the lots patch         *)
(* generator with its Decimal delta encoding, and the request sequences    *)
(* of the collections' adjust / transfer / update calls.                   *)
(*                                                                         *)
(* Python values are tagged records; every kind has field names of its own *)
(* so that values of different kinds compare unequal:                      *)
(*   None        [k |-> "None"]                                            *)
(*   str         [k |-> "str",   chars |-> <<"a", "b">>]                   *)
(*   int         [k |-> "int",   neg, ip]        (decimal digits)          *)
(*   float       [k |-> "float", neg, ip, fp]    (digits of its repr)      *)
(*   EntityLink  [k |-> "entity", id, name]                                *)
(*   list        [k |-> "list",  items |-> <<...>>]                        *)
(*   set         [k |-> "set",   elems |-> {...}]                          *)
(*   dict        [k |-> "dict",  map |-> [keys -> values]]                 *)
(***************************************************************************)
EXTENDS Integers, Sequences, FiniteSets, TLC

VARIABLES
    md_existing,   \* _generate_metadata_diff: argument existing_metadata
    md_updated,    \* _generate_metadata_diff: argument updated_metadata
    md_result,     \* its outcome: [raised |-> BOOLEAN, data |-> list of PatchDatum]
    md_pc,         \* "call" before the call, "done" after it
    pp_existing,   \* _generate_patch_payload: the existing resource (attribute -> value)
    pp_updated,    \* _generate_patch_payload: the updated resource
    pp_flags,      \* its keyword arguments generate_metadata_diff and stringify_values
    pp_result,     \* its outcome: [raised, data]
    pp_pc,         \* "call" before the call, "done" after it
    lot_existing,  \* _generate_lots_patch_payload: the existing Lot
    lot_updated,   \* _generate_lots_patch_payload: the updated Lot
    lot_result,    \* its outcome: [raised, data]
    lot_pc,        \* "call" before the call, "done" after it
    c_op,          \* a collection call: [name, args]
    c_pc,          \* the position of the call
    c_srv,         \* the platform's state: [lot, user_id, res]
    c_reqs,        \* the requests the call has issued, in order
    c_existing,    \* the resource the call fetched first
    c_todo,        \* update(): its plan, with the mutating requests still to send
    c_ret,         \* the outcome of the call: [kind, value, source]
    en_existing,   \* the enum diff: the existing validation's value list
    en_updated,    \* the enum diff: the updated validation's value list
    en_result,     \* its outcome: the list of enum patches
    en_pc,         \* "call" before the call, then the name of the function that ran
    ch_initial,    \* the child comparators: the existing template's children
    ch_updated,    \* the child comparators: the updated template's children
    ch_kind,       \* "parameter" or "datacolumn" once a comparator has started
    ch_parts,      \* the three groups the comparator computed first
    ch_result,     \* its outcome: [raised, patches, new, enum_patches]
    ch_pc,         \* "call", then "partitioned", then "done"
    pg_cfg,        \* AlbertPaginator: its arguments [mode, max_items]
    pg_pc,         \* the position of _create_iterator
    pg_data,       \* the page in hand: [Items, lastKey, offset]
    pg_local,      \* the iterator's locals: [yielded, seen_keys, pending]
    pg_params,     \* _pagination_params: [limit, offset, startKey]
    pg_last_key,   \* _last_key
    pg_out,        \* the number of items the iterator has yielded
    pg_requests,   \* the number of pages requested
    et_existing,   \* EntityTypeCollection.update: the entity type it fetched
    et_updated,    \* EntityTypeCollection.update: its argument
    et_result,     \* the payload it built: [raised, data]
    et_pc,         \* "call" before the payload is built, "done" after
    ad_calls,      \* two adjust calls on one lot: <<[action, quantity], [action, quantity]>>
    ad_pc,         \* the position of each of the two calls
    ad_existing,   \* the lot each call fetched first
    ad_lot,        \* the lot as the platform stores it
    ad_initial,    \* the quantity the platform stored before the two calls
    lp_mode,       \* utils.pagination.AlbertPaginator: its mode
    lp_params,     \* its params: [limit, offset, startKey]
    lp_pc,         \* the position of __iter__
    lp_data,       \* the page in hand: [Items, lastKey, offset]
    lp_rest,       \* the number of items of the page in hand still to be yielded
    lp_yielded,    \* the number of items __iter__ has yielded
    lp_fetched,    \* the number of items fetched so far that deserialize to a value
    lp_requests    \* the number of pages requested

mdVars == <<md_existing, md_updated, md_result, md_pc>>

ppVars == <<pp_existing, pp_updated, pp_flags, pp_result, pp_pc>>

lotVars == <<lot_existing, lot_updated, lot_result, lot_pc>>

enVars == <<en_existing, en_updated, en_result, en_pc>>

\* the variables of the template and paginator components
chVars == <<ch_initial, ch_updated, ch_kind, ch_parts, ch_result, ch_pc>>

pgVars == <<pg_cfg, pg_pc, pg_data, pg_local, pg_params, pg_last_key, pg_out, pg_requests>>

etVars == <<et_existing, et_updated, et_result, et_pc>>

adVars == <<ad_calls, ad_pc, ad_existing, ad_lot, ad_initial>>

lpVars == <<lp_mode, lp_params, lp_pc, lp_data, lp_rest, lp_yielded, lp_fetched, lp_requests>>

moreVars == <<enVars, chVars, pgVars, etVars, adVars, lpVars>>

\* the variables of the generators, which the collection calls leave alone
restVars == <<mdVars, ppVars, lotVars, moreVars>>

callVars == <<c_op, c_pc, c_srv, c_reqs, c_existing, c_todo, c_ret>>

vars == <<mdVars, ppVars, lotVars, callVars, moreVars>>

-----------------------------------------------------------------------------
(* Bounds of the model *)

\* number of distinct entity ids
NumIds == 3
\* longest list of linked entities in a metadata value
MaxListLen == 2

-----------------------------------------------------------------------------
(* Python values *)

NoneV == [k |-> "None"]

StrV(cs) == [k |-> "str", chars |-> cs]

IntV(neg, ip) == [k |-> "int", neg |-> neg, ip |-> ip]

FloatV(neg, ip, fp) == [k |-> "float", neg |-> neg, ip |-> ip, fp |-> fp]

ListV(xs) == [k |-> "list", items |-> xs]

SetV(S) == [k |-> "set", elems |-> S]

DictV(f) == [k |-> "dict", map |-> f]

\* EntityLink(id=..., name=...): id is a str, name a str or None
EntityLink(id, name) == [k |-> "entity", id |-> id, name |-> name]

DigitChar == <<"0", "1", "2", "3", "4", "5", "6", "7", "8", "9">>

IsNone(v) == v.k = "None"

\* isinstance(value, str | int | float)
IsScalar(v) == v.k \in {"str", "int", "float"}

\* isinstance(value, list)
IsList(v) == v.k = "list"

\* value.id succeeds only on an object with an id attribute; on None, a str, a
\* number or a list Python raises AttributeError
HasId(v) == v.k = "entity"

\* key in mapping
HasKey(d, key) == key \in DOMAIN d.map

\* the sequence <<f(xs[1]), ...>> of the ids of a list of entities: [x.id for x in value]
AllIds(xs) == [i \in 1..Len(xs) |-> StrV(xs[i].id)]

\* {v.id for v in value}
IdSet(xs) == {StrV(xs[i].id) : i \in 1..Len(xs)}

\* list(s) of a set: some sequence without repetition over its elements (Python
\* leaves the order of a set's iteration open)
SetToList(S) == CHOOSE xs \in [1..Cardinality(S) -> S] : {xs[i] : i \in 1..Cardinality(S)} = S

-----------------------------------------------------------------------------
(* PatchDatum / PatchPayload *)

ADD == "add"

UPDATE == "update"

DELETE == "delete"

\* PatchDatum(attribute=, operation=, old_value=, new_value=); a value that is
\* not given is None
PatchDatum(attribute, operation, old_value, new_value) ==
    [attribute |-> attribute, operation |-> operation,
     old_value |-> old_value, new_value |-> new_value]

\* the outcome of a generator: the list it returns, or the exception it raises
Returned(data) == [raised |-> FALSE, data |-> data]

Raised == [raised |-> TRUE, data |-> <<>>]

\* run b after a: an exception in a ends the call
Extend(a, b) ==
    IF a.raised \/ b.raised THEN Raised ELSE Returned(a.data \o b.data)

-----------------------------------------------------------------------------
(* BaseCollection._generate_metadata_diff *)

\* metadata keys, in the order the mappings are iterated
MetadataKeys == <<"a", "b">>

MetadataAttribute(key) == "Metadata." \o key

\* lines 36-63: the DELETE for a key that updated_metadata drops
DeletedKeyDatum(attribute, value) ==
    IF IsScalar(value)
    THEN Returned(<<PatchDatum(attribute, DELETE, value, NoneV)>>)
    ELSE IF IsList(value)
    THEN LET all_ids == AllIds(value.items)
         IN  IF Len(all_ids) = 0
             THEN Returned(<<>>)
             ELSE Returned(<<PatchDatum(attribute, DELETE,
                              IF Len(all_ids) = 1 THEN all_ids[1] ELSE ListV(all_ids),
                              NoneV)>>)
    ELSE IF HasId(value)
    THEN Returned(<<PatchDatum(attribute, DELETE, StrV(value.id), NoneV)>>)
    ELSE Raised

\* a plausible slip in lines 75-89: the UPDATE carries the two deltas instead
\* of the two full id sets
LinkedListDiffDeltas(attribute, value, new) ==
    IF ~(IsList(value) \/ HasId(value))
    THEN Raised
    ELSE LET existing_id == IF IsList(value) THEN IdSet(value.items) ELSE {StrV(value.id)}
             updated_id == IdSet(new.items)
             to_add == SetToList(updated_id \ existing_id)
             to_remove == SetToList(existing_id \ updated_id)
         IN  IF Len(to_add \o to_remove) = 0
             THEN Returned(<<>>)
             ELSE IF Len(to_add) > 0 /\ Len(to_remove) > 0
             THEN Returned(<<PatchDatum(attribute, UPDATE,
                              SetV(existing_id \ updated_id), SetV(updated_id \ existing_id))>>)
             ELSE IF Len(to_add) > 0
             THEN Returned(<<PatchDatum(attribute, ADD, NoneV, ListV(to_add))>>)
             ELSE Returned(<<PatchDatum(attribute, DELETE, ListV(to_remove), NoneV)>>)

\* lines 74-104: a changed key whose updated value is a list of linked entities
LinkedListDiff(attribute, value, new) ==
    IF ~(IsList(value) \/ HasId(value))
    THEN Raised
    ELSE LET existing_id == IF IsList(value) THEN IdSet(value.items) ELSE {StrV(value.id)}
             updated_id == IdSet(new.items)
             to_add == SetToList(updated_id \ existing_id)
             to_remove == SetToList(existing_id \ updated_id)
         IN  IF Len(to_add \o to_remove) = 0
             THEN Returned(<<>>)
             ELSE IF Len(to_add) > 0 /\ Len(to_remove) > 0
             THEN Returned(<<PatchDatum(attribute, UPDATE,
                              SetV(existing_id), SetV(updated_id))>>)
             ELSE IF Len(to_add) > 0
             THEN Returned(<<PatchDatum(attribute, ADD, NoneV, ListV(to_add))>>)
             ELSE Returned(<<PatchDatum(attribute, DELETE, ListV(to_remove), NoneV)>>)

\* lines 33-114: the body of the first loop for one key of existing_metadata
ExistingKeyDiff(key, existing, updated) ==
    LET value == existing.map[key]
        attribute == MetadataAttribute(key)
    IN  IF ~HasKey(updated, key) \/ IsNone(updated.map[key])
        THEN DeletedKeyDatum(attribute, value)
        ELSE IF value # updated.map[key]
        THEN LET new == updated.map[key]
             IN  IF IsScalar(new)
                 THEN Returned(<<PatchDatum(attribute, UPDATE, value, new)>>)
                 ELSE IF IsList(new)
                 THEN LinkedListDiff(attribute, value, new)
                 ELSE IF HasId(value) /\ HasId(new)
                 THEN Returned(<<PatchDatum(attribute, UPDATE, StrV(value.id), StrV(new.id))>>)
                 ELSE Raised
        ELSE Returned(<<>>)

\* a plausible slip in lines 126-136: a one-element list is sent as a list
AddedKeyDatumNoUnwrap(attribute, value) ==
    IF IsScalar(value)
    THEN Returned(<<PatchDatum(attribute, ADD, NoneV, value)>>)
    ELSE IF IsList(value)
    THEN LET all_ids == AllIds(value.items)
         IN  IF Len(all_ids) = 0
             THEN Returned(<<>>)
             ELSE Returned(<<PatchDatum(attribute, ADD, NoneV, ListV(all_ids))>>)
    ELSE IF HasId(value)
    THEN Returned(<<PatchDatum(attribute, ADD, NoneV, StrV(value.id))>>)
    ELSE Raised

\* lines 118-144: the ADD for a key that only updated_metadata has
AddedKeyDatum(attribute, value) ==
    IF IsScalar(value)
    THEN Returned(<<PatchDatum(attribute, ADD, NoneV, value)>>)
    ELSE IF IsList(value)
    THEN LET all_ids == AllIds(value.items)
         IN  IF Len(all_ids) = 0
             THEN Returned(<<>>)
             ELSE Returned(<<PatchDatum(attribute, ADD, NoneV,
                              IF Len(all_ids) = 1 THEN all_ids[1] ELSE ListV(all_ids))>>)
    ELSE IF HasId(value)
    THEN Returned(<<PatchDatum(attribute, ADD, NoneV, StrV(value.id))>>)
    ELSE Raised

\* lines 115-144: the body of the second loop for one key of updated_metadata
UpdatedKeyDiff(key, existing, updated) ==
    IF ~HasKey(existing, key)
    THEN AddedKeyDatum(MetadataAttribute(key), updated.map[key])
    ELSE Returned(<<>>)

\* the first loop, over the keys of existing_metadata from the i-th on
RECURSIVE ExistingLoop(_, _, _)
ExistingLoop(i, existing, updated) ==
    IF i > Len(MetadataKeys)
    THEN Returned(<<>>)
    ELSE LET key == MetadataKeys[i]
             here == IF HasKey(existing, key)
                     THEN ExistingKeyDiff(key, existing, updated)
                     ELSE Returned(<<>>)
         IN  IF here.raised THEN Raised
             ELSE Extend(here, ExistingLoop(i + 1, existing, updated))

\* the second loop, over the keys of updated_metadata from the i-th on
RECURSIVE UpdatedLoop(_, _, _)
UpdatedLoop(i, existing, updated) ==
    IF i > Len(MetadataKeys)
    THEN Returned(<<>>)
    ELSE LET key == MetadataKeys[i]
             here == IF HasKey(updated, key)
                     THEN UpdatedKeyDiff(key, existing, updated)
                     ELSE Returned(<<>>)
         IN  IF here.raised THEN Raised
             ELSE Extend(here, UpdatedLoop(i + 1, existing, updated))

\* _generate_metadata_diff(existing_metadata, updated_metadata)
GenerateMetadataDiff(existing_metadata, updated_metadata) ==
    LET existing == IF IsNone(existing_metadata) THEN DictV(<<>>) ELSE existing_metadata
        updated == IF IsNone(updated_metadata) THEN DictV(<<>>) ELSE updated_metadata
        first == ExistingLoop(1, existing, updated)
    IN  IF first.raised THEN Raised
        ELSE Extend(first, UpdatedLoop(1, existing, updated))

-----------------------------------------------------------------------------
(* The metadata values the differ is run on *)

\* entity ids "E1", "E2", ...
EntityId(i) == <<"E", DigitChar[i + 1]>>

\* linked entities: one per id, and a second one for E1 that differs in its name only
Entities ==
    {EntityLink(EntityId(i), NoneV) : i \in 1..NumIds}
        \cup {EntityLink(EntityId(1), StrV(<<"n">>))}

RECURSIVE SeqsUpTo(_, _)
SeqsUpTo(S, n) ==
    IF n = 0 THEN {<<>>}
    ELSE LET shorter == SeqsUpTo(S, n - 1)
         IN  shorter \cup {Append(xs, x) : xs \in {ys \in shorter : Len(ys) = n - 1}, x \in S}

Scalars == {StrV(<<"x">>), StrV(<<"y">>), IntV(FALSE, <<7>>)}

\* MetadataItem: a scalar, a linked entity, a list of linked entities, or None
MetadataItems ==
    {NoneV} \cup Scalars \cup Entities \cup {ListV(xs) : xs \in SeqsUpTo(Entities, MaxListLen)}

\* the second key takes a few values only
FewItems == {NoneV, StrV(<<"x">>)}

\* the mappings over the keys "a" and "b", each key present or absent
MetadataDicts ==
    {DictV(f) : f \in
        UNION {[K -> MetadataItems \cup FewItems] : K \in SUBSET {"a", "b"}}}

MetadataInputs ==
    {NoneV} \cup {d \in MetadataDicts :
                    /\ HasKey(d, "b") => d.map["b"] \in FewItems}

MdInit ==
    /\ md_existing \in MetadataInputs
    /\ md_updated \in MetadataInputs
    /\ md_result = Returned(<<>>)
    /\ md_pc = "call"

\* one call of the metadata differ
MdCall ==
    /\ md_pc = "call"
    /\ md_result' = GenerateMetadataDiff(md_existing, md_updated)
    /\ md_pc' = "done"
    /\ UNCHANGED <<md_existing, md_updated>>

\* the differ is not in use
MdIdle ==
    /\ md_existing = NoneV
    /\ md_updated = NoneV
    /\ md_result = Returned(<<>>)
    /\ md_pc = "idle"

-----------------------------------------------------------------------------
(* str() and repr() of a value *)

Chars_None == <<"N", "o", "n", "e">>

Chars_EntityLink == <<"E", "n", "t", "i", "t", "y", "L", "i", "n", "k">>

Chars_id == <<"i", "d", "=">>

Chars_name == <<"n", "a", "m", "e", "=">>

\* the digits of a number as characters
DigitChars(ds) == [i \in 1..Len(ds) |-> DigitChar[ds[i] + 1]]

\* ", ".join(parts)
RECURSIVE JoinComma(_)
JoinComma(parts) ==
    IF Len(parts) = 0 THEN <<>>
    ELSE IF Len(parts) = 1 THEN parts[1]
    ELSE parts[1] \o <<",", " ">> \o JoinComma(Tail(parts))

\* the keys of a mapping in iteration order
KeysOf(d) == SelectSeq(MetadataKeys, LAMBDA key : key \in DOMAIN d.map)

\* repr(v), as a sequence of characters
RECURSIVE PyRepr(_)
PyRepr(v) ==
    CASE v.k = "None" -> Chars_None
      [] v.k = "str" -> <<"'">> \o v.chars \o <<"'">>
      [] v.k = "int" -> (IF v.neg THEN <<"-">> ELSE <<>>) \o DigitChars(v.ip)
      [] v.k = "float" ->
            (IF v.neg THEN <<"-">> ELSE <<>>) \o DigitChars(v.ip) \o <<".">> \o DigitChars(v.fp)
      [] v.k = "entity" ->
            Chars_EntityLink \o <<"(">> \o Chars_id \o PyRepr(StrV(v.id)) \o <<",", " ">>
                \o Chars_name \o PyRepr(v.name) \o <<")">>
      [] v.k = "list" ->
            <<"[">> \o JoinComma([i \in 1..Len(v.items) |-> PyRepr(v.items[i])]) \o <<"]">>
      [] v.k = "set" ->
            LET xs == SetToList(v.elems)
            IN  <<"{">> \o JoinComma([i \in 1..Len(xs) |-> PyRepr(xs[i])]) \o <<"}">>
      [] v.k = "dict" ->
            LET keys == KeysOf(v)
            IN  <<"{">>
                \o JoinComma([i \in 1..Len(keys) |->
                      <<"'", keys[i], "'", ":", " ">> \o PyRepr(v.map[keys[i]])])
                \o <<"}">>

\* str(v): a str is itself, a pydantic model prints its fields, anything else its repr
PyStr(v) ==
    CASE v.k = "str" -> v
      [] v.k = "entity" ->
            StrV(Chars_id \o PyRepr(StrV(v.id)) \o <<" ">> \o Chars_name \o PyRepr(v.name))
      [] OTHER -> StrV(PyRepr(v))

-----------------------------------------------------------------------------
(* BaseCollection._generate_patch_payload *)

EmptyList == ListV(<<>>)

EmptyDict == DictV(<<>>)

\* new_value == [] or new_value == {}
IsEmptyContainer(v) == v = EmptyList \/ v = EmptyDict

\* the value of a number, for ==: sign, integer digits, fractional digits
\* without trailing zeros (10 == 10.0)
RECURSIVE StripTrailingZeros(_)
StripTrailingZeros(ds) ==
    IF Len(ds) > 0 /\ ds[Len(ds)] = 0 THEN StripTrailingZeros(SubSeq(ds, 1, Len(ds) - 1))
    ELSE ds

RECURSIVE StripLeadingZeros(_)
StripLeadingZeros(ds) ==
    IF Len(ds) > 1 /\ ds[1] = 0 THEN StripLeadingZeros(Tail(ds)) ELSE ds

IsNumber(v) == v.k \in {"int", "float"}

NumberValue(v) ==
    LET ip == StripLeadingZeros(v.ip)
        fp == IF v.k = "float" THEN StripTrailingZeros(v.fp) ELSE <<>>
        zero == ip = <<0>> /\ fp = <<>>
    IN  [neg |-> v.neg /\ ~zero, ip |-> ip, fp |-> fp]

\* a == b
PyEq(a, b) ==
    IF IsNumber(a) /\ IsNumber(b) THEN NumberValue(a) = NumberValue(b) ELSE a = b

\* a plausible slip in lines 165-170: only None -> empty is suppressed
CoerceEmptyOneWay(old_value, new_value) ==
    IF IsNone(old_value) /\ IsEmptyContainer(new_value)
    THEN <<old_value, NoneV>>
    ELSE <<old_value, new_value>>

\* lines 165-170: None and an empty list / dict are the same value
CoerceEmpty(old_value, new_value) ==
    IF IsNone(old_value) /\ IsEmptyContainer(new_value)
    THEN <<old_value, NoneV>>
    ELSE IF IsEmptyContainer(old_value) /\ IsNone(new_value)
    THEN <<NoneV, new_value>>
    ELSE <<old_value, new_value>>

\* a plausible slip in lines 192-203: a changed value is sent as an ADD of the new value
ScalarDiffAddOnly(alias, old_value, new_value, stringify_values) ==
    IF ~IsNone(new_value) /\ ~PyEq(new_value, old_value)
    THEN Returned(<<PatchDatum(alias, ADD, NoneV,
                     IF stringify_values THEN PyStr(new_value) ELSE new_value)>>)
    ELSE Returned(<<>>)

\* lines 180-203: the ADD or UPDATE of an attribute that is not diffed as metadata
ScalarDiff(alias, old_value, new_value, stringify_values) ==
    IF IsNone(old_value) /\ ~IsNone(new_value)
    THEN Returned(<<PatchDatum(alias, ADD, NoneV,
                     IF stringify_values THEN PyStr(new_value) ELSE new_value)>>)
    ELSE IF ~IsNone(old_value) /\ ~PyEq(new_value, old_value)
    THEN Returned(<<PatchDatum(alias, UPDATE,
                     IF stringify_values THEN PyStr(old_value) ELSE old_value,
                     IF stringify_values THEN PyStr(new_value) ELSE new_value)>>)
    ELSE Returned(<<>>)

\* getattr(resource, attribute, None)
GetAttr(resource, attribute) ==
    IF attribute \in DOMAIN resource THEN resource[attribute] ELSE NoneV

\* lines 162-203: the body of the loop for one updatable attribute
AttributeDiff(attribute, alias, existing, updated, generate_metadata_diff, stringify_values) ==
    LET pair == CoerceEmpty(GetAttr(existing, attribute), GetAttr(updated, attribute))
        old_value == pair[1]
        new_value == pair[2]
    IN  IF attribute = "metadata" /\ generate_metadata_diff
        THEN GenerateMetadataDiff(old_value, new_value)
        ELSE ScalarDiff(alias[attribute], old_value, new_value, stringify_values)

\* the loop over _updatable_attributes from the i-th on
RECURSIVE AttributeLoop(_, _, _, _, _, _, _)
AttributeLoop(i, attributes, alias, existing, updated, generate_metadata_diff, stringify_values) ==
    IF i > Len(attributes)
    THEN Returned(<<>>)
    ELSE LET here == AttributeDiff(attributes[i], alias, existing, updated,
                                   generate_metadata_diff, stringify_values)
         IN  IF here.raised THEN Raised
             ELSE Extend(here, AttributeLoop(i + 1, attributes, alias, existing, updated,
                                             generate_metadata_diff, stringify_values))

\* _generate_patch_payload(existing=, updated=, generate_metadata_diff=, stringify_values=)
\* of a collection whose _updatable_attributes are `attributes`
GeneratePatchPayload(attributes, alias, existing, updated, generate_metadata_diff, stringify_values) ==
    AttributeLoop(1, attributes, alias, existing, updated,
                  generate_metadata_diff, stringify_values)

-----------------------------------------------------------------------------
(* The resources the generic builder is run on: a mapping-valued attribute *)
(* (metadata), a scalar (name) and a list (tags), as in TaskCollection     *)

\* _updatable_attributes, in iteration order
UpdatableAttributes == <<"metadata", "name", "tags">>

\* model_fields[attribute].alias or attribute
FieldAlias == [metadata |-> "Metadata", name |-> "name", tags |-> "Tags"]

E1 == EntityLink(EntityId(1), NoneV)

E2 == EntityLink(EntityId(2), NoneV)

MetadataValues ==
    {NoneV, EmptyDict, DictV([a |-> StrV(<<"x">>)]), DictV([a |-> NoneV]),
     DictV([a |-> E1]), DictV([a |-> ListV(<<E1>>)])}

NameValues == {NoneV, StrV(<<"x">>), StrV(<<"y">>)}

TagsValues == {NoneV, EmptyList, EmptyDict, ListV(<<E1>>), ListV(<<E1, E2>>)}

Resources ==
    [metadata : MetadataValues, name : NameValues, tags : TagsValues]

PpInit ==
    /\ pp_existing \in Resources
    /\ pp_updated \in Resources
    /\ pp_flags \in [generate_metadata_diff : BOOLEAN, stringify_values : BOOLEAN]
    /\ pp_result = Returned(<<>>)
    /\ pp_pc = "call"

\* one call of the generic builder
PpCall ==
    /\ pp_pc = "call"
    /\ pp_result' = GeneratePatchPayload(UpdatableAttributes, FieldAlias, pp_existing, pp_updated,
                                         pp_flags.generate_metadata_diff,
                                         pp_flags.stringify_values)
    /\ pp_pc' = "done"
    /\ UNCHANGED <<pp_existing, pp_updated, pp_flags>>

\* the builder is not in use
PpIdle ==
    /\ pp_existing = <<>>
    /\ pp_updated = <<>>
    /\ pp_flags = <<>>
    /\ pp_result = Returned(<<>>)
    /\ pp_pc = "idle"

-----------------------------------------------------------------------------
(* decimal.Decimal: sign, coefficient digits, number of fractional digits  *)
(* (the negated exponent).  Numbers are written without an exponent: the   *)
(* floats of the model lie in [0.0001, 1e16) or are zero, where str(float) *)
(* is positional, and every result has fewer than 28 digits, the precision *)
(* of the default context, so that no operation rounds or signals.         *)

\* DECIMAL_DELTA_QUANTIZE = Decimal("0.00000000000000"): its number of places
DeltaPlaces == 14

Decimal(neg, coef, scale) == [neg |-> neg, coef |-> coef, scale |-> scale]

Zeros(n) == [i \in 1..n |-> 0]

Max(a, b) == IF a >= b THEN a ELSE b

CharDigit(c) == CHOOSE d \in 0..9 : DigitChar[d + 1] = c

\* the position of the first "." of a string, 0 when it has none
DotIndex(cs) ==
    IF \E i \in 1..Len(cs) : cs[i] = "."
    THEN CHOOSE i \in 1..Len(cs) : cs[i] = "." /\ \A j \in 1..(i - 1) : cs[j] # "."
    ELSE 0

\* a string is a decimal numeral: [-]digits[.digits]
IsNumeral(cs) ==
    LET body == IF Len(cs) > 0 /\ cs[1] = "-" THEN Tail(cs) ELSE cs
        dot == DotIndex(body)
    IN  /\ Len(body) > 0
        /\ \A i \in 1..Len(body) : i # dot => \E d \in 0..9 : DigitChar[d + 1] = body[i]
        /\ dot # 1

\* Decimal(s) of a numeral s
ParseDecimal(cs) ==
    LET neg == cs[1] = "-"
        body == IF neg THEN Tail(cs) ELSE cs
        dot == DotIndex(body)
        ip == IF dot = 0 THEN body ELSE SubSeq(body, 1, dot - 1)
        fp == IF dot = 0 THEN <<>> ELSE SubSeq(body, dot + 1, Len(body))
        ds == [i \in 1..(Len(ip) + Len(fp)) |->
                 CharDigit(IF i <= Len(ip) THEN ip[i] ELSE fp[i - Len(ip)])]
    IN  Decimal(neg, StripLeadingZeros(ds), Len(fp))

\* Decimal(str(x)): decimal.InvalidOperation for a string that is no numeral
\* (str(None) = "None")
DecimalOfStr(x) ==
    LET cs == PyStr(x).chars
    IN  IF IsNumeral(cs) THEN [raised |-> FALSE, value |-> ParseDecimal(cs)]
        ELSE [raised |-> TRUE, value |-> Decimal(FALSE, <<0>>, 0)]

Front(ds) == SubSeq(ds, 1, Len(ds) - 1)

\* digits of x + y + carry, for x and y of the same length
RECURSIVE AddDigits(_, _, _)
AddDigits(x, y, carry) ==
    IF Len(x) = 0
    THEN IF carry = 1 THEN <<1>> ELSE <<>>
    ELSE LET sum == x[Len(x)] + y[Len(y)] + carry
         IN  Append(AddDigits(Front(x), Front(y), sum \div 10), sum % 10)

\* digits of x - y - borrow, for x >= y of the same length
RECURSIVE SubDigits(_, _, _)
SubDigits(x, y, borrow) ==
    IF Len(x) = 0
    THEN <<>>
    ELSE LET diff == x[Len(x)] - y[Len(y)] - borrow
         IN  Append(SubDigits(Front(x), Front(y), IF diff < 0 THEN 1 ELSE 0),
                    IF diff < 0 THEN diff + 10 ELSE diff)

\* x < y for digit strings of the same length
RECURSIVE DigitsLess(_, _)
DigitsLess(x, y) ==
    IF Len(x) = 0 THEN FALSE
    ELSE IF x[1] # y[1] THEN x[1] < y[1]
    ELSE DigitsLess(Tail(x), Tail(y))

IsZeroDec(a) == \A i \in 1..Len(a.coef) : a.coef[i] = 0

\* the coefficient of a at `scale` fractional digits, padded on the left to `len` digits
Aligned(a, scale, len) ==
    LET shifted == a.coef \o Zeros(scale - a.scale)
    IN  Zeros(len - Len(shifted)) \o shifted

\* a + b, exact
DecAdd(a, b) ==
    LET scale == Max(a.scale, b.scale)
        len == Max(Len(a.coef) + scale - a.scale, Len(b.coef) + scale - b.scale)
        x == Aligned(a, scale, len)
        y == Aligned(b, scale, len)
    IN  IF a.neg = b.neg
        THEN Decimal(a.neg, StripLeadingZeros(AddDigits(x, y, 0)), scale)
        ELSE IF x = y
        THEN Decimal(FALSE, <<0>>, scale)
        ELSE IF DigitsLess(y, x)
        THEN Decimal(a.neg, StripLeadingZeros(SubDigits(x, y, 0)), scale)
        ELSE Decimal(b.neg, StripLeadingZeros(SubDigits(y, x, 0)), scale)

\* -a (the negation of a zero is the positive zero)
DecNeg(a) == Decimal(~a.neg /\ ~IsZeroDec(a), a.coef, a.scale)

\* a - b, exact
DecSub(a, b) == DecAdd(a, Decimal(~b.neg, b.coef, b.scale))

\* a plausible slip in line 310: the delta is not quantized
QuantizeSkipped(a, places) == a

\* a.quantize(Decimal with `places` fractional digits), ROUND_HALF_EVEN
Quantize(a, places) ==
    IF a.scale <= places
    THEN Decimal(a.neg,
                 IF IsZeroDec(a) THEN <<0>> ELSE a.coef \o Zeros(places - a.scale),
                 places)
    ELSE LET drop == a.scale - places
             padded == Zeros(Max(0, drop + 1 - Len(a.coef))) \o a.coef
             kept == SubSeq(padded, 1, Len(padded) - drop)
             dropped == SubSeq(padded, Len(padded) - drop + 1, Len(padded))
             rest_zero == \A i \in 2..Len(dropped) : dropped[i] = 0
             up == \/ dropped[1] > 5
                   \/ dropped[1] = 5 /\ ~rest_zero
                   \/ dropped[1] = 5 /\ rest_zero /\ kept[Len(kept)] % 2 = 1
             rounded == IF up THEN AddDigits(kept, Zeros(Len(kept) - 1) \o <<1>>, 0) ELSE kept
         IN  Decimal(a.neg, StripLeadingZeros(rounded), places)

\* format(a, "f"): sign, integer digits, "." and the fractional digits, no exponent
FormatF(a) ==
    LET padded == Zeros(Max(0, a.scale + 1 - Len(a.coef))) \o a.coef
        ip == SubSeq(padded, 1, Len(padded) - a.scale)
        fp == SubSeq(padded, Len(padded) - a.scale + 1, Len(padded))
    IN  (IF a.neg THEN <<"-">> ELSE <<>>)
            \o DigitChars(ip)
            \o (IF a.scale > 0 THEN <<".">> \o DigitChars(fp) ELSE <<>>)

-----------------------------------------------------------------------------
(* LotCollection._generate_lots_patch_payload *)

\* LotCollection._updatable_attributes, in iteration order
LotUpdatableAttributes ==
    <<"metadata", "storage_location", "manufacturer_lot_number", "expiration_date",
      "initial_quantity", "inventory_on_hand", "cost", "status", "pack_size", "barcode_id">>

\* the serialization aliases of the Lot fields
LotFieldAlias ==
    [metadata |-> "Metadata", storage_location |-> "StorageLocation",
     manufacturer_lot_number |-> "manufacturerLotNumber", expiration_date |-> "expirationDate",
     initial_quantity |-> "initialQuantity", inventory_on_hand |-> "inventoryOnHand",
     cost |-> "cost", status |-> "status", pack_size |-> "packSize", barcode_id |-> "barcodeId"]

\* lines 307-318: the datum carrying the inventory delta
InventoryDeltaDatum(existing, updated) ==
    LET new == DecimalOfStr(updated.inventory_on_hand)
        old == DecimalOfStr(existing.inventory_on_hand)
    IN  IF new.raised \/ old.raised
        THEN Raised
        ELSE LET delta == Quantize(DecSub(new.value, old.value), DeltaPlaces)
             IN  Returned(<<PatchDatum("inventoryOnHand", UPDATE,
                              PyStr(existing.inventory_on_hand), StrV(FormatF(delta)))>>)

\* lines 302-318: inventory_on_hand goes out as a delta
WithInventoryDelta(data, existing, updated) ==
    IF /\ ~IsNone(updated.inventory_on_hand)
       /\ ~PyEq(updated.inventory_on_hand, existing.inventory_on_hand)
    THEN Extend(Returned(SelectSeq(data, LAMBDA d : d.attribute # "inventoryOnHand")),
                InventoryDeltaDatum(existing, updated))
    ELSE Returned(data)

\* datum.new_value.id if datum.new_value else None
IdOrNone(v) == IF IsNone(v) THEN NoneV ELSE StrV(v.id)

\* lines 322-326: the storage location goes out under its wire name, as bare ids
WithStorageLocationIds(data) ==
    [i \in 1..Len(data) |->
        IF data[i].attribute = "StorageLocation"
        THEN PatchDatum("storageLocation", data[i].operation,
                        IdOrNone(data[i].old_value), IdOrNone(data[i].new_value))
        ELSE data[i]]

\* _generate_lots_patch_payload(existing=, updated=)
GenerateLotsPatchPayload(existing, updated) ==
    LET patch_data == GeneratePatchPayload(LotUpdatableAttributes, LotFieldAlias,
                                           existing, updated, TRUE, FALSE)
    IN  IF patch_data.raised
        THEN Raised
        ELSE LET with_delta == WithInventoryDelta(patch_data.data, existing, updated)
             IN  IF with_delta.raised THEN Raised
                 ELSE Returned(WithStorageLocationIds(with_delta.data))

-----------------------------------------------------------------------------
(* The lots the generator is run on *)

\* inventory quantities: an int, floats with up to 15 fractional digits
\* (10.000000000000002 is the float next to 10.0), and zero
InventoryNumbers ==
    {IntV(FALSE, <<1, 0>>),
     FloatV(FALSE, <<1, 0>>, <<0>>),
     FloatV(FALSE, <<1, 0>>, <<0, 0, 0, 0, 0, 0, 0, 0, 0, 0, 0, 0, 0, 1>>),
     FloatV(FALSE, <<1, 0>>, <<0, 0, 0, 0, 0, 0, 0, 0, 0, 0, 0, 0, 0, 0, 2>>),
     FloatV(FALSE, <<9>>, <<5>>),
     FloatV(FALSE, <<1>>, <<0>>),
     FloatV(FALSE, <<1>>, <<0, 0, 0, 0, 0, 0, 0, 0, 0, 0, 0, 0, 0, 0, 5>>),
     FloatV(FALSE, <<1>>, <<0, 0, 0, 0, 0, 0, 0, 0, 0, 0, 0, 0, 0, 1, 5>>),
     FloatV(FALSE, <<0>>, <<0>>)}

\* storage locations, with their ids
StorageLocations == {EntityLink(<<"L", "1">>, NoneV), EntityLink(<<"L", "2">>, NoneV)}

Lots ==
    [metadata : {NoneV, DictV([a |-> StrV(<<"x">>)])},
     storage_location : {NoneV} \cup StorageLocations,
     manufacturer_lot_number : {NoneV, StrV(<<"m">>)},
     inventory_on_hand : {NoneV} \cup InventoryNumbers]

LotInit ==
    /\ lot_existing \in Lots
    /\ lot_updated \in Lots
    /\ lot_result = Returned(<<>>)
    /\ lot_pc = "call"

\* one call of the lots patch generator
LotCall ==
    /\ lot_pc = "call"
    /\ lot_result' = GenerateLotsPatchPayload(lot_existing, lot_updated)
    /\ lot_pc' = "done"
    /\ UNCHANGED <<lot_existing, lot_updated>>

\* the lots generator is not in use
LotIdle ==
    /\ lot_existing = <<>>
    /\ lot_updated = <<>>
    /\ lot_result = Returned(<<>>)
    /\ lot_pc = "idle"

-----------------------------------------------------------------------------
(* Collection calls: the requests they issue and what they return *)

Request(method, path, body) == [method |-> method, path |-> path, body |-> body]

NoBody == [data |-> <<>>]

\* the outcome of a call: nothing yet, a returned resource (re-fetched by a GET,
\* built from a POST response, or the caller's own object), or an exception
NoReturn == [kind |-> "none", value |-> NoneV, source |-> "none"]

ReturnValue(value, source) == [kind |-> "value", value |-> value, source |-> source]

RaisedError(kind) == [kind |-> kind, value |-> NoneV, source |-> "none"]

\* f"/api/{_api_version}/<collection>"
BasePath(collection) == "/api/v3/" \o collection

ResourcePath(collection, id) == BasePath(collection) \o "/" \o id

LotPath(lot_id) == ResourcePath("lots", lot_id)

\* quantity <= 0
IsNonPositive(quantity) ==
    \/ quantity.neg
    \/ /\ \A i \in 1..Len(quantity.ip) : quantity.ip[i] = 0
       /\ \A i \in 1..Len(quantity.fp) : quantity.fp[i] = 0

\* a plausible slip in lines 370-371: zero passes the check
AdjustRejectsNegative(action, quantity) ==
    \/ action = "ZERO" /\ ~IsNone(quantity)
    \/ action # "ZERO" /\ (IsNone(quantity) \/ quantity.neg)

\* adjust, lines 367-371: the calls that raise ValueError
AdjustRejects(action, quantity) ==
    \/ action = "ZERO" /\ ~IsNone(quantity)
    \/ action # "ZERO" /\ (IsNone(quantity) \/ IsNonPositive(quantity))

\* a plausible slip in lines 381-382: SET sends the target, not the difference
AdjustDeltaSetAbsolute(action, current, requested) ==
    CASE action = "ADD" -> requested
      [] action = "SUBTRACT" -> DecNeg(requested)
      [] action = "SET" -> requested
      [] OTHER -> DecNeg(current)

\* a plausible slip in lines 379-380: SUBTRACT sends the quantity unsigned
AdjustDeltaSubtractUnsigned(action, current, requested) ==
    CASE action = "ADD" -> requested
      [] action = "SUBTRACT" -> requested
      [] action = "SET" -> DecSub(requested, current)
      [] OTHER -> DecNeg(current)

\* adjust, lines 377-384
AdjustDelta(action, current, requested) ==
    CASE action = "ADD" -> requested
      [] action = "SUBTRACT" -> DecNeg(requested)
      [] action = "SET" -> DecSub(requested, current)
      [] OTHER -> DecNeg(current)

\* _format_inventory_delta
FormatInventoryDelta(value) == FormatF(Quantize(value, DeltaPlaces))

\* a plausible slip in line 464: the split quantity goes through the delta format
FormatInventoryValueQuantized(value) == FormatInventoryDelta(ParseDecimal(PyStr(value).chars))

\* _format_inventory_value
FormatInventoryValue(value) == FormatF(ParseDecimal(PyStr(value).chars))

\* adjust, lines 374-398: the body of the PATCH
AdjustPayload(existing_lot, action, quantity, description) ==
    LET current == ParseDecimal(PyStr(existing_lot.inventory_on_hand).chars)
        requested == IF IsNone(quantity) THEN current
                     ELSE ParseDecimal(PyStr(quantity).chars)
        delta == AdjustDelta(action, current, requested)
    IN  [data |-> <<PatchDatum("inventoryOnHand", UPDATE,
                               PyStr(existing_lot.inventory_on_hand),
                               StrV(FormatInventoryDelta(delta)))>>,
         notes |-> description]

\* transfer, lines 433-443: the body of the PATCH
TransferAllPayload(source_lot, storage_location_id) ==
    [data |-> <<PatchDatum("storageLocation", UPDATE,
                           IdOrNone(source_lot.storage_location),
                           StrV(storage_location_id))>>]

\* transfer, lines 461-466: the body of the split POST
SplitPayload(transfer_quantity, storage_location_id, owner) ==
    [action |-> "splitted",
     inventoryOnHand |-> StrV(FormatInventoryValue(transfer_quantity)),
     StorageLocation |-> StrV(storage_location_id),
     Owner |-> <<owner>>]

-----------------------------------------------------------------------------
(* update() of the collections: the mutating requests between the two GETs *)

Collections ==
    {"lots", "teams", "locations", "entitytypes", "btinsight", "datatemplates", "tasks"}

\* _updatable_attributes of the collections that use the generic builder as it is
BuilderAttributes(collection) ==
    CASE collection = "teams" -> <<"name">>
      [] collection = "locations" -> <<"latitude", "longitude", "address", "country", "name">>
      [] collection = "entitytypes" ->
            <<"label", "template_based", "locked_template", "custom_fields",
              "standard_field_visibility", "search_query_string">>
      [] collection = "btinsight" ->
            <<"name", "state", "metadata", "output_key", "start_time", "end_time",
              "total_time", "raw_payload", "content_edited", "payload_type", "registry">>
      [] collection = "datatemplates" -> <<"name", "description", "metadata">>
      [] OTHER -> UpdatableAttributes

\* the serialization aliases of those attributes
BuilderAlias ==
    [name |-> "name", latitude |-> "latitude", longitude |-> "longitude",
     address |-> "address", country |-> "country", label |-> "label",
     template_based |-> "templateBased", locked_template |-> "lockedTemplate",
     custom_fields |-> "customFields",
     standard_field_visibility |-> "standardFieldVisibility",
     search_query_string |-> "searchQueryString", state |-> "state",
     metadata |-> "Metadata", output_key |-> "outputKey", start_time |-> "startTime",
     end_time |-> "endTime", total_time |-> "totalTime", raw_payload |-> "RawPayload",
     content_edited |-> "contentEdited", payload_type |-> "payloadType",
     registry |-> "Registry", description |-> "description", tags |-> "Tags"]

\* the call each update() makes to the generic builder
BuilderPayload(collection, existing, updated) ==
    GeneratePatchPayload(BuilderAttributes(collection), BuilderAlias, existing, updated,
                         collection # "entitytypes",
                         collection \in {"teams", "locations"})

\* a flag, among values that may be None
BoolV(b) == [k |-> "bool", b |-> b]

\* a pydantic object with leaf fields, as standard_field_visibility is
ObjectV(fields) == [k |-> "object", fields |-> fields]

\* model_fields of the two flattened objects: each leaf's name and its alias
LeafFields(attribute) ==
    IF attribute = "standard_field_visibility"
    THEN <<[field_name |-> "notes", alias |-> "Notes"], [field_name |-> "tags", alias |-> "Tags"]>>
    ELSE <<[field_name |-> "DAT", alias |-> "DAT"], [field_name |-> "PRG", alias |-> "PRG"]>>

\* lines 139-146: the whole-list datum of custom_fields
CustomFieldsPatches(existing, updated) ==
    IF ~IsNone(updated.custom_fields) /\ ~IsNone(existing.custom_fields)
    THEN <<PatchDatum("customFields", UPDATE, existing.custom_fields, updated.custom_fields)>>
    ELSE IF ~IsNone(updated.custom_fields)
    THEN <<PatchDatum("customFields", ADD, NoneV, updated.custom_fields)>>
    ELSE <<>>

\* lines 161-172: the datum of one leaf, when its value differs
LeafPatch(parent, leaf, old_value, new_value) ==
    IF ~PyEq(new_value, old_value)
    THEN <<PatchDatum(parent \o "." \o leaf.alias, UPDATE, old_value, new_value)>>
    ELSE <<>>

RECURSIVE LeafLoop(_, _, _, _)
LeafLoop(parent, leaves, existing_object, updated_object) ==
    IF Len(leaves) = 0 THEN <<>>
    ELSE LeafPatch(parent, Head(leaves), existing_object.fields[Head(leaves).field_name],
                   updated_object.fields[Head(leaves).field_name])
             \o LeafLoop(parent, Tail(leaves), existing_object, updated_object)

\* lines 157-172 and 175-190: getattr(existing.<object>, field_name) raises
\* when the existing object is None
LeafPatches(parent, leaves, existing_object, updated_object) ==
    IF IsNone(updated_object) THEN Returned(<<>>)
    ELSE IF IsNone(existing_object) THEN Raised
    ELSE Returned(LeafLoop(parent, leaves, existing_object, updated_object))

\* EntityTypeCollection._generate_special_attribute_patches
GenerateSpecialAttributePatches(existing, updated) ==
    Extend(Returned(CustomFieldsPatches(existing, updated)),
           Extend(LeafPatches("standardFieldVisibility", LeafFields("standard_field_visibility"),
                              existing.standard_field_visibility, updated.standard_field_visibility),
                  LeafPatches("searchQueryString", LeafFields("search_query_string"),
                              existing.search_query_string, updated.search_query_string)))

\* EntityTypeCollection.update, lines 65-76: the payload it sends
EntityTypePayload(existing, updated) ==
    Extend(GeneratePatchPayload(<<"label", "template_based", "locked_template", "custom_fields", "standard_field_visibility", "search_query_string">>,
                                [label |-> "label", template_based |-> "templateBased", locked_template |-> "lockedTemplate", custom_fields |-> "customFields", standard_field_visibility |-> "standardFieldVisibility", search_query_string |-> "searchQueryString"],
                                existing, updated, FALSE, FALSE),
           GenerateSpecialAttributePatches(existing, updated))

\* the special patches of entity types whose standard_field_visibility and
\* search_query_string are None, which never raise
SpecialAttributePatches(existing, updated) == GenerateSpecialAttributePatches(existing, updated).data

\* tasks, _generate_adv_patch_payload: the assigned_to datum, for tasks without
\* inventory information
AssignedToPatches(existing, updated) ==
    LET old_value == existing.assigned_to
        new_value == updated.assigned_to
    IN  IF \/ new_value = old_value
           \/ ~IsNone(new_value) /\ ~IsNone(old_value) /\ new_value.id = old_value.id
        THEN <<>>
        ELSE IF IsNone(old_value)
        THEN <<PatchDatum("AssignedTo", ADD, NoneV, new_value)>>
        ELSE IF IsNone(new_value)
        THEN <<PatchDatum("AssignedTo", DELETE, old_value, NoneV)>>
        ELSE <<PatchDatum("AssignedTo", UPDATE, EntityLink(old_value.id, NoneV), new_value)>>

\* session.patch(path, json=payload)
OnePatch(path, data) == <<Request("PATCH", path, [data |-> data])>>

\* one request per element of a list of data (tasks patch one datum at a time)
OnePatchEach(path, data) ==
    [i \in 1..Len(data) |-> Request("PATCH", path, [data |-> <<data[i]>>])]

IfThen(cond, requests) == IF cond THEN requests ELSE <<>>

\* the body of a PATCH on the parameters endpoint: a PGPatchPayload whose data
\* are named by what they patch
ParametersBody(patches) == [data |-> <<>>, parameters |-> patches]

\* lines 661-676: one validation UPDATE per sequence whose enum PUT returned enums
EnumValidationPatches(changes) == IfThen(changes.parameter_enums, <<"enum_validation">>)

\* lines 678-695: the patches of the comparator, less the validation patches
\* of the sequences that had an enum PUT
AllParameterPatches(changes) ==
    IF changes.parameter_patches = "other" THEN <<"other">>
    ELSE IF changes.parameter_patches = "validation" /\ ~changes.parameter_enums
    THEN <<"validation">>
    ELSE <<>>

\* lines 589-659: the PUTs of new data columns, data column enums, new
\* parameters (with the GET and the enum PUT of _add_param_enums) and
\* parameter enums
DataTemplatePuts(path, changes) ==
    IfThen(changes.new_data_columns, <<Request("PUT", path \o "/datacolumns", NoBody)>>)
    \o IfThen(changes.data_column_enums,
              <<Request("PUT", path \o "/datacolumns/enums", NoBody)>>)
    \o IfThen(changes.new_parameters # "none",
              <<Request("PUT", path \o "/parameters", NoBody), Request("GET", path, NoBody)>>)
    \o IfThen(changes.new_parameters = "enum",
              <<Request("PUT", path \o "/parameters/enums", NoBody)>>)
    \o IfThen(changes.parameter_enums,
              <<Request("PUT", path \o "/parameters/enums", NoBody)>>)

\* lines 700-719: the PATCHes on the parameters endpoint
ParameterPatchRequests(path, enum_validation_patches, all_parameter_patches) ==
    IfThen(Len(all_parameter_patches) > 0,
           [i \in 1..Len(enum_validation_patches) |->
               Request("PATCH", path \o "/parameters",
                       ParametersBody(<<enum_validation_patches[i]>>))]
           \o <<Request("PATCH", path \o "/parameters", ParametersBody(all_parameter_patches))>>)

\* lines 721-726: the general PATCH on the template
GeneralPatchRequests(path, general) ==
    IfThen(Len(general) > 0, <<Request("PATCH", path, [data |-> general])>>)

GeneralData(base_data, changes) ==
    base_data \o IfThen(changes.tags, <<PatchDatum("tag", ADD, NoneV, StrV(<<"t">>))>>)

\* a plausible slip: the general PATCH goes out before the PUTs
DataTemplateRequestsGeneralFirst(path, base_data, changes) ==
    GeneralPatchRequests(path, GeneralData(base_data, changes))
    \o DataTemplatePuts(path, changes)
    \o ParameterPatchRequests(path, EnumValidationPatches(changes), AllParameterPatches(changes))

\* data templates, lines 589-727: the requests of update() for a template whose
\* differences from the stored one are `changes`: new data columns, data column
\* enums, new parameters ("none", "plain", "enum"), parameter enums on an
\* existing parameter, patches of the parameters ("none", "validation" of that
\* parameter, "other"), and tags
DataTemplateRequests(path, base_data, changes) ==
    DataTemplatePuts(path, changes)
    \o ParameterPatchRequests(path, EnumValidationPatches(changes), AllParameterPatches(changes))
    \o GeneralPatchRequests(path, GeneralData(base_data, changes))

\* what update() does between its first GET and its last: an exception, an
\* early return of the caller's object, or a list of requests
Plan(raised, early, requests) == [raised |-> raised, early |-> early, requests |-> requests]

NoPlan == Plan(FALSE, FALSE, <<>>)

\* the payload update() starts from: the lots generator or the generic builder
UpdatePayload(collection, existing, updated) ==
    IF collection = "lots" THEN GenerateLotsPatchPayload(existing, updated)
    ELSE BuilderPayload(collection, existing, updated)

\* the requests update() sends for the data of its payload
UpdateRequests(collection, path, data, existing, updated, changes) ==
    CASE collection \in {"lots", "teams"} -> IfThen(Len(data) > 0, OnePatch(path, data))
      [] collection \in {"locations", "btinsight"} -> OnePatch(path, data)
      [] collection = "entitytypes" ->
            OnePatch(path, data \o SpecialAttributePatches(existing, updated))
      [] collection = "datatemplates" -> DataTemplateRequests(path, data, changes)
      [] OTHER -> OnePatchEach(path, data \o AssignedToPatches(existing, updated))

\* tasks, lines 946-948: with an empty payload update() returns its argument
PlanOf(collection, payload, requests) ==
    IF payload.raised THEN Plan(TRUE, FALSE, <<>>)
    ELSE Plan(FALSE, collection = "tasks" /\ Len(requests) = 0, requests)

PlanFrom(collection, path, payload, existing, updated, changes) ==
    PlanOf(collection, payload,
           UpdateRequests(collection, path, payload.data, existing, updated, changes))

UpdatePlan(collection, existing, updated, changes) ==
    PlanFrom(collection, ResourcePath(collection, updated.id),
             UpdatePayload(collection, existing, updated), existing, updated, changes)

-----------------------------------------------------------------------------
(* The platform, as far as the calls see it *)

\* a float from its decimal value: float(Decimal)
ToNumber(d) ==
    LET padded == Zeros(Max(0, d.scale + 1 - Len(d.coef))) \o d.coef
        ip == SubSeq(padded, 1, Len(padded) - d.scale)
        fp == StripTrailingZeros(SubSeq(padded, Len(padded) - d.scale + 1, Len(padded)))
    IN  FloatV(d.neg /\ ~IsZeroDec(d), ip, IF fp = <<>> THEN <<0>> ELSE fp)

\* the field a patched attribute is stored in
StoredField ==
    [name |-> "name", label |-> "label", customFields |-> "custom_fields",
     manufacturerLotNumber |-> "manufacturer_lot_number", AssignedTo |-> "assigned_to"]

\* the platform applies one datum: it adds an inventoryOnHand delta to the
\* stored quantity and stores the other values it is sent
ApplyDatum(resource, d) ==
    IF d.attribute = "inventoryOnHand" /\ "inventory_on_hand" \in DOMAIN resource
    THEN IF d.new_value.k = "str" /\ ~IsNone(resource.inventory_on_hand)
         THEN [resource EXCEPT !.inventory_on_hand =
                  ToNumber(DecAdd(ParseDecimal(PyStr(@).chars), ParseDecimal(d.new_value.chars)))]
         ELSE resource
    ELSE IF d.attribute = "storageLocation" /\ "storage_location" \in DOMAIN resource
    THEN [resource EXCEPT !.storage_location =
             IF IsNone(d.new_value) THEN NoneV ELSE EntityLink(d.new_value.chars, NoneV)]
    ELSE IF d.attribute \in DOMAIN StoredField
    THEN IF StoredField[d.attribute] \in DOMAIN resource
         THEN [resource EXCEPT ![StoredField[d.attribute]] = d.new_value]
         ELSE resource
    ELSE resource

RECURSIVE ApplyData(_, _)
ApplyData(resource, data) ==
    IF Len(data) = 0 THEN resource
    ELSE ApplyData(ApplyDatum(resource, Head(data)), Tail(data))

\* the platform's state after a request on the lot (is_lot) or on the other resource
Served(srv, is_lot, request) ==
    IF request.method = "PATCH" /\ "data" \in DOMAIN request.body
    THEN IF is_lot THEN [srv EXCEPT !.lot = ApplyData(@, request.body.data)]
         ELSE [srv EXCEPT !.res = ApplyData(@, request.body.data)]
    ELSE srv

-----------------------------------------------------------------------------
(* The calls the collections are driven with *)

LotId == "LOT1"

L1 == <<"L", "1">>

L2 == <<"L", "2">>

\* adjust's quantity (validate_call makes it a float): None, positive with up
\* to 15 fractional digits, zero, negative
AdjustQuantities ==
    {NoneV,
     FloatV(FALSE, <<5>>, <<0>>),
     FloatV(FALSE, <<2>>, <<5>>),
     FloatV(FALSE, <<1>>, <<0, 0, 0, 0, 0, 0, 0, 0, 0, 0, 0, 0, 0, 0, 5>>),
     FloatV(FALSE, <<0>>, <<0>>),
     FloatV(TRUE, <<1>>, <<0>>)}

\* the quantities a fetched lot has on hand
StoredInventories ==
    {FloatV(FALSE, <<1, 0>>, <<0>>), FloatV(FALSE, <<9>>, <<5>>), FloatV(FALSE, <<0>>, <<0>>)}

StoredLot(inventory, location, number) ==
    [id |-> LotId, metadata |-> NoneV, storage_location |-> location,
     manufacturer_lot_number |-> number, inventory_on_hand |-> inventory]

NoResource == [id |-> "R1", name |-> StrV(<<"n">>)]

DefaultLot == StoredLot(FloatV(FALSE, <<1, 0>>, <<0>>), NoneV, NoneV)

Platform(lot, user_id, res) == [lot |-> lot, user_id |-> user_id, res |-> res]

NoChanges ==
    [new_data_columns |-> FALSE, data_column_enums |-> FALSE, new_parameters |-> "none",
     parameter_enums |-> FALSE, parameter_patches |-> "none", tags |-> FALSE]

DataTemplateChanges ==
    [new_data_columns : BOOLEAN, data_column_enums : BOOLEAN,
     new_parameters : {"none", "plain", "enum"}, parameter_enums : BOOLEAN,
     parameter_patches : {"none", "validation", "other"}, tags : BOOLEAN]

Names == {StrV(<<"n">>), StrV(<<"m">>)}

\* the resources of a collection, as far as update() distinguishes them
ResourcesOf(collection) ==
    CASE collection = "lots" ->
            {StoredLot(i, l, NoneV) :
                i \in {FloatV(FALSE, <<1, 0>>, <<0>>), FloatV(FALSE, <<9>>, <<5>>)},
                l \in {NoneV, EntityLink(L1, NoneV)}}
      [] collection = "entitytypes" ->
            [id : {"R1"}, label : Names,
             custom_fields : {NoneV, ListV(<<StrV(<<"f">>)>>)},
             standard_field_visibility : {NoneV}, search_query_string : {NoneV}]
      [] collection = "tasks" ->
            [id : {"R1"}, name : Names,
             assigned_to : {NoneV, E1, EntityLink(EntityId(1), StrV(<<"n">>)), E2}]
      [] OTHER -> [id : {"R1"}, name : Names]

AdjustCalls ==
    [name : {"adjust"},
     args : [action : {"ADD", "SUBTRACT", "SET", "ZERO"}, quantity : AdjustQuantities,
             description : {NoneV, StrV(<<"d">>)}]]

TransferCalls ==
    [name : {"transfer"},
     args : [quantity : {StrV(<<"A", "L", "L">>)} \cup (AdjustQuantities \ {NoneV}),
             storage_location_id : {L1, L2},
             owner : {NoneV, StrV(<<"U", "1">>)}]]

UpdateCalls ==
    UNION {[name : {"update"},
            args : [collection : {c}, updated : ResourcesOf(c),
                    changes : IF c = "datatemplates" THEN DataTemplateChanges ELSE {NoChanges}]] :
           c \in Collections}

\* the states of the platform a call can meet
PlatformsFor(op) ==
    CASE op.name = "adjust" ->
            {Platform(StoredLot(i, NoneV, NoneV), NoneV, NoResource) : i \in StoredInventories}
      [] op.name = "transfer" ->
            {Platform(StoredLot(FloatV(FALSE, <<1, 0>>, <<0>>), l, NoneV), u, NoResource) :
                l \in {NoneV, EntityLink(L1, NoneV)}, u \in {NoneV, StrV(<<"U", "9">>)}}
      [] OTHER ->
            IF op.args.collection = "lots"
            THEN {Platform(l, NoneV, NoResource) : l \in ResourcesOf("lots")}
            ELSE {Platform(DefaultLot, NoneV, r) : r \in ResourcesOf(op.args.collection)}

CallInit ==
    /\ c_op \in AdjustCalls \cup TransferCalls \cup UpdateCalls
    /\ c_srv \in PlatformsFor(c_op)
    /\ c_pc = "start"
    /\ c_reqs = <<>>
    /\ c_existing = NoneV
    /\ c_todo = NoPlan
    /\ c_ret = NoReturn

\* no collection call is under way
CallIdle ==
    /\ c_op = <<>>
    /\ c_srv = <<>>
    /\ c_pc = "idle"
    /\ c_reqs = <<>>
    /\ c_existing = NoneV
    /\ c_todo = NoPlan
    /\ c_ret = NoReturn

\* a plausible slip: the platform has applied the request that it answers with an error
IssueAppliedOnFailure(request, ok, srv, pc, ret, existing) ==
    /\ c_reqs' = Append(c_reqs, request)
    /\ c_srv' = srv
    /\ IF ok
       THEN /\ c_pc' = pc
            /\ c_ret' = ret
            /\ c_existing' = existing
       ELSE /\ c_pc' = "raised"
            /\ c_ret' = RaisedError("HTTPError")
            /\ c_existing' = c_existing

\* session.<method>(...): the request goes out; answered, the call goes on with
\* the platform in state `srv`, and otherwise the session raises
Issue(request, ok, srv, pc, ret, existing) ==
    /\ c_reqs' = Append(c_reqs, request)
    /\ IF ok
       THEN /\ c_srv' = srv
            /\ c_pc' = pc
            /\ c_ret' = ret
            /\ c_existing' = existing
       ELSE /\ c_srv' = c_srv
            /\ c_pc' = "raised"
            /\ c_ret' = RaisedError("HTTPError")
            /\ c_existing' = c_existing

-----------------------------------------------------------------------------
(* LotCollection.adjust *)

\* lines 367-371
AdjustValidate ==
    /\ c_op.name = "adjust"
    /\ c_pc = "start"
    /\ IF AdjustRejects(c_op.args.action, c_op.args.quantity)
       THEN c_pc' = "raised" /\ c_ret' = RaisedError("ValueError")
       ELSE c_pc' = "get" /\ c_ret' = c_ret
    /\ UNCHANGED <<c_op, c_srv, c_reqs, c_existing, c_todo>>
    /\ UNCHANGED restVars

\* line 373
AdjustGet ==
    /\ c_op.name = "adjust"
    /\ c_pc = "get"
    /\ \E ok \in BOOLEAN :
          Issue(Request("GET", LotPath(LotId), NoBody), ok, c_srv, "patch", c_ret, c_srv.lot)
    /\ UNCHANGED <<c_op, c_todo>>
    /\ UNCHANGED restVars

\* lines 374-400
AdjustPatch ==
    /\ c_op.name = "adjust"
    /\ c_pc = "patch"
    /\ LET request == Request("PATCH", LotPath(LotId),
                              AdjustPayload(c_existing, c_op.args.action, c_op.args.quantity,
                                            c_op.args.description))
       IN  \E ok \in BOOLEAN :
              Issue(request, ok, Served(c_srv, TRUE, request), "refetch", c_ret, c_existing)
    /\ UNCHANGED <<c_op, c_todo>>
    /\ UNCHANGED restVars

\* line 401
AdjustRefetch ==
    /\ c_op.name = "adjust"
    /\ c_pc = "refetch"
    /\ \E ok \in BOOLEAN :
          Issue(Request("GET", LotPath(LotId), NoBody), ok, c_srv, "done",
                ReturnValue(c_srv.lot, "get"), c_existing)
    /\ UNCHANGED <<c_op, c_todo>>
    /\ UNCHANGED restVars

-----------------------------------------------------------------------------
(* LotCollection.transfer *)

IsAll(quantity) == quantity = StrV(<<"A", "L", "L">>)

\* lines 431, 451-455: the branch taken before any request
TransferValidate ==
    /\ c_op.name = "transfer"
    /\ c_pc = "start"
    /\ IF IsAll(c_op.args.quantity)
       THEN c_pc' = "get" /\ c_ret' = c_ret
       ELSE IF IsNonPositive(c_op.args.quantity)
       THEN c_pc' = "raised" /\ c_ret' = RaisedError("ValueError")
       ELSE IF IsNone(c_op.args.owner)
       THEN c_pc' = "user" /\ c_ret' = c_ret
       ELSE c_pc' = "post" /\ c_ret' = c_ret
    /\ c_existing' = IF IsAll(c_op.args.quantity) THEN c_existing ELSE c_op.args.owner
    /\ UNCHANGED <<c_op, c_srv, c_reqs, c_todo>>
    /\ UNCHANGED restVars

\* line 432
TransferGet ==
    /\ c_op.name = "transfer"
    /\ c_pc = "get"
    /\ \E ok \in BOOLEAN :
          Issue(Request("GET", LotPath(LotId), NoBody), ok, c_srv, "patch", c_ret, c_srv.lot)
    /\ UNCHANGED <<c_op, c_todo>>
    /\ UNCHANGED restVars

\* lines 433-448
TransferPatch ==
    /\ c_op.name = "transfer"
    /\ c_pc = "patch"
    /\ LET request == Request("PATCH", LotPath(LotId),
                              TransferAllPayload(c_existing, c_op.args.storage_location_id))
       IN  \E ok \in BOOLEAN :
              Issue(request, ok, Served(c_srv, TRUE, request), "refetch", c_ret, c_existing)
    /\ UNCHANGED <<c_op, c_todo>>
    /\ UNCHANGED restVars

\* line 449
TransferRefetch ==
    /\ c_op.name = "transfer"
    /\ c_pc = "refetch"
    /\ \E ok \in BOOLEAN :
          Issue(Request("GET", LotPath(LotId), NoBody), ok, c_srv, "done",
                ReturnValue(c_srv.lot, "get"), c_existing)
    /\ UNCHANGED <<c_op, c_todo>>
    /\ UNCHANGED restVars

\* lines 456-459: the owner defaults to the current user, who must have an id
TransferCurrentUser ==
    /\ c_op.name = "transfer"
    /\ c_pc = "user"
    /\ \E ok \in BOOLEAN :
          Issue(Request("GET", BasePath("users") \o "/current", NoBody), ok, c_srv,
                IF IsNone(c_srv.user_id) THEN "raised" ELSE "post",
                IF IsNone(c_srv.user_id) THEN RaisedError("ValueError") ELSE c_ret,
                c_srv.user_id)
    /\ UNCHANGED <<c_op, c_todo>>
    /\ UNCHANGED restVars

\* lines 461-468: the split, answered with the lot it created
TransferSplit ==
    /\ c_op.name = "transfer"
    /\ c_pc = "post"
    /\ LET request == Request("POST", LotPath(LotId) \o "/split",
                              SplitPayload(c_op.args.quantity, c_op.args.storage_location_id,
                                           c_existing))
           created == [StoredLot(c_op.args.quantity,
                                 EntityLink(c_op.args.storage_location_id, NoneV), NoneV)
                       EXCEPT !.id = "LOT2"]
       IN  \E ok \in BOOLEAN :
              Issue(request, ok, c_srv, "done", ReturnValue(created, "post"), c_existing)
    /\ UNCHANGED <<c_op, c_todo>>
    /\ UNCHANGED restVars

-----------------------------------------------------------------------------
(* update() of lots, teams, locations, entity types, BT insights, data
   templates and tasks *)

\* the resource update() works on
Stored(srv, collection) == IF collection = "lots" THEN srv.lot ELSE srv.res

\* the first get_by_id and the payload generation that follows it
UpdateGet ==
    /\ c_op.name = "update"
    /\ c_pc = "start"
    /\ c_reqs' = Append(c_reqs, Request("GET", ResourcePath(c_op.args.collection,
                                                           c_op.args.updated.id), NoBody))
    /\ \E ok \in BOOLEAN :
          IF ~ok
          THEN /\ c_pc' = "raised"
               /\ c_ret' = RaisedError("HTTPError")
               /\ UNCHANGED <<c_existing, c_todo>>
          ELSE /\ c_existing' = Stored(c_srv, c_op.args.collection)
               /\ c_todo' = UpdatePlan(c_op.args.collection, c_existing', c_op.args.updated,
                                       c_op.args.changes)
               /\ c_pc' = IF c_todo'.raised THEN "raised"
                          ELSE IF c_todo'.early THEN "done" ELSE "send"
               /\ c_ret' = IF c_todo'.raised THEN RaisedError("Exception")
                           ELSE IF c_todo'.early THEN ReturnValue(c_op.args.updated, "input")
                           ELSE c_ret
    /\ UNCHANGED <<c_op, c_srv>>
    /\ UNCHANGED restVars

\* the next PUT or PATCH of the update
UpdateSend ==
    /\ c_op.name = "update"
    /\ c_pc = "send"
    /\ Len(c_todo.requests) > 0
    /\ \E ok \in BOOLEAN :
          /\ Issue(Head(c_todo.requests), ok,
                   Served(c_srv, c_op.args.collection = "lots", Head(c_todo.requests)),
                   "send", c_ret, c_existing)
          /\ c_todo' = IF ok THEN [c_todo EXCEPT !.requests = Tail(@)] ELSE c_todo
    /\ UNCHANGED c_op
    /\ UNCHANGED restVars

\* the final get_by_id, whose answer update() returns
UpdateRefetch ==
    /\ c_op.name = "update"
    /\ c_pc = "send"
    /\ Len(c_todo.requests) = 0
    /\ \E ok \in BOOLEAN :
          Issue(Request("GET", ResourcePath(c_op.args.collection, c_op.args.updated.id), NoBody),
                ok, c_srv, "done",
                ReturnValue(Stored(c_srv, c_op.args.collection), "get"), c_existing)
    /\ UNCHANGED <<c_op, c_todo>>
    /\ UNCHANGED restVars

-----------------------------------------------------------------------------
(* Enum value patches: utils/_patch.py and collections/data_templates.py *)

\* an EnumValidationValue: id is NoneV for a value the platform has not stored yet
EnumValidationValue(id, text) == [k |-> "enum", id |-> id, text |-> text, original_text |-> NoneV]

\* an EnumValidationValue the platform returned with its original_text
EnumValidationValueWith(id, text, original_text) == [k |-> "enum", id |-> id, text |-> text, original_text |-> original_text]

IsEnumValidationValue(x) == x.k = "enum"

HasEnumId(x) == ~IsNone(x.id)

EnumIds(enums) == {enums[i].id : i \in DOMAIN enums}

EnumAdd(enum) == [operation |-> ADD, text |-> enum.text]

EnumDelete(enum) == [operation |-> DELETE, id |-> enum.id]

EnumUpdate(enum) == [operation |-> UPDATE, id |-> enum.id, text |-> enum.text]

RECURSIVE MapSeq(_, _)
MapSeq(Op(_), s) == IF Len(s) = 0 THEN <<>> ELSE <<Op(Head(s))>> \o MapSeq(Op, Tail(s))

\* generate_enum_patches, with the ids of both sides passed to the three filters
EnumPatchesByIdsAll(existing_enum, updated_enum, existing_enum_ids, updated_enum_ids) ==
    LET deleted(x) == HasEnumId(x) /\ x.id \notin updated_enum_ids
        new(x) == IsNone(x.id) \/ x.id \notin existing_enum_ids
        to_update(x) == HasEnumId(x) /\ x.id \in existing_enum_ids
    IN  MapSeq(EnumAdd, SelectSeq(updated_enum, new))
            \o MapSeq(EnumDelete, SelectSeq(existing_enum, deleted))
            \o MapSeq(EnumUpdate, SelectSeq(updated_enum, to_update))

GenerateEnumPatchesOf(existing_enum, updated_enum) ==
    EnumPatchesByIdsAll(existing_enum, updated_enum,
                        EnumIds(SelectSeq(existing_enum, HasEnumId)),
                        EnumIds(SelectSeq(updated_enum, HasEnumId)))

generate_enum_patches(existing_enums, updated_enums) ==
    GenerateEnumPatchesOf(SelectSeq(existing_enums, IsEnumValidationValue),
                          SelectSeq(updated_enums, IsEnumValidationValue))

\* the text the platform holds for an id (ids of stored values are unique)
ExistingEnumText(existing_enums, id) ==
    LET same(x) == x.id = id IN Head(SelectSeq(existing_enums, same)).text

\* _add_param_enums, the comparison of one parameter's enum values
AddParamEnumsOf(existing_enums, updated_enums) ==
    LET deleted(x) == x.id \notin EnumIds(updated_enums)
        new(x) == x.id \notin EnumIds(existing_enums)
        changed(x) ==
            /\ x.id \in EnumIds(existing_enums)
            /\ x.text # ExistingEnumText(existing_enums, x.id)
    IN  MapSeq(EnumAdd, SelectSeq(updated_enums, new))
            \o MapSeq(EnumDelete, SelectSeq(existing_enums, deleted))
            \o MapSeq(EnumUpdate, SelectSeq(updated_enums, changed))

AddParamEnumsPatches(existing_value, updated_value) ==
    LET stored(x) == IsEnumValidationValue(x) /\ HasEnumId(x)
    IN  AddParamEnumsOf(SelectSeq(existing_value, stored),
                        SelectSeq(updated_value, IsEnumValidationValue))

(* Inputs of the enum diff *)

MaxEnums == 2

EnumIdValues == {StrV(<<"1">>), StrV(<<"2">>)}

EnumTexts == {"A", "B"}

\* a value list may hold items that are not EnumValidationValue: both functions skip them
EnumItems ==
    {EnumValidationValue(id, text) : id \in EnumIdValues \cup {NoneV}, text \in EnumTexts}
        \cup {StrV(<<"x">>)}

UniqueEnumIds(enums) ==
    \A i, j \in DOMAIN enums :
        (i # j /\ IsEnumValidationValue(enums[i]) /\ IsEnumValidationValue(enums[j])
            /\ HasEnumId(enums[i])) => enums[i].id # enums[j].id

\* the platform stores enum values under ids it assigns; a caller's list repeats no id
ExistingEnumLists ==
    {s \in SeqsUpTo(EnumItems, MaxEnums) :
        /\ UniqueEnumIds(s)
        /\ \A i \in DOMAIN s : IsEnumValidationValue(s[i]) => HasEnumId(s[i])}

UpdatedEnumLists == {s \in SeqsUpTo(EnumItems, MaxEnums) : UniqueEnumIds(s)}

EnInit ==
    /\ en_existing \in ExistingEnumLists
    /\ en_updated \in UpdatedEnumLists
    /\ en_result = <<>>
    /\ en_pc = "call"

GenerateEnumPatchesCall ==
    /\ en_pc = "call"
    /\ en_result' = generate_enum_patches(en_existing, en_updated)
    /\ en_pc' = "generate_enum_patches"
    /\ UNCHANGED <<en_existing, en_updated>>
    /\ UNCHANGED <<mdVars, ppVars, lotVars, callVars, chVars, pgVars, etVars, adVars, lpVars>>

AddParamEnumsCall ==
    /\ en_pc = "call"
    /\ en_result' = AddParamEnumsPatches(en_existing, en_updated)
    /\ en_pc' = "_add_param_enums"
    /\ UNCHANGED <<en_existing, en_updated>>
    /\ UNCHANGED <<mdVars, ppVars, lotVars, callVars, chVars, pgVars, etVars, adVars, lpVars>>

EnIdle ==
    /\ en_existing = <<>>
    /\ en_updated = <<>>
    /\ en_result = <<>>
    /\ en_pc = "idle"

-----------------------------------------------------------------------------
(* Parameter and data column patches: utils/_patch.py *)

ENUM == "enum"

\* one entry of a validation list: its datatype and its value (None, a str, or
\* a list of EnumValidationValue)
ValueValidation(datatype, value) == [k |-> "validation", datatype |-> datatype, value |-> value]

\* a ParameterValue or a DataColumnValue, as far as the comparators read it
Child(sequence, unit, value, validation) == [sequence |-> sequence, unit |-> unit, value |-> value, validation |-> validation]

PGPatchDatum(operation, attribute, oldValue, newValue, rowId) == [k |-> "PGPatchDatum", operation |-> operation, attribute |-> attribute, oldValue |-> oldValue, newValue |-> newValue, rowId |-> rowId]

DTPatchDatum(operation, attribute, oldValue, newValue, colId) == [k |-> "DTPatchDatum", operation |-> operation, attribute |-> attribute, oldValue |-> oldValue, newValue |-> newValue, colId |-> colId]

GeneralPatchDatum(attribute, actions, colId) == [k |-> "GeneralPatchDatum", attribute |-> attribute, actions |-> actions, colId |-> colId]

\* a comparison that returns a datum or None, as the list of what it returned
Present(patch) == IF IsNone(patch) THEN <<>> ELSE <<patch>>

ParameterUnitPatches(initial, updated) ==
    IF initial.unit = updated.unit THEN NoneV
    ELSE IF IsNone(initial.unit)
         THEN PGPatchDatum(ADD, "unitId", NoneV, updated.unit.id, updated.sequence)
    ELSE IF IsNone(updated.unit)
         THEN PGPatchDatum(DELETE, "unitId", initial.unit.id, NoneV, updated.sequence)
    ELSE IF initial.unit.id # updated.unit.id
         THEN PGPatchDatum(UPDATE, "unitId", initial.unit.id, updated.unit.id, updated.sequence)
    ELSE NoneV

DataColumnUnitPatches(initial, updated) ==
    IF initial.unit = updated.unit THEN NoneV
    ELSE IF IsNone(initial.unit)
         THEN DTPatchDatum(ADD, "unit", NoneV, updated.unit.id, initial.sequence)
    ELSE IF IsNone(updated.unit)
         THEN DTPatchDatum(DELETE, "unit", initial.unit.id, NoneV, initial.sequence)
    ELSE IF initial.unit.id # updated.unit.id
         THEN DTPatchDatum(UPDATE, "unit", initial.unit.id, updated.unit.id, initial.sequence)
    ELSE NoneV

ParameterValuePatches(initial, updated) ==
    IF initial.value = updated.value THEN NoneV
    ELSE IF IsNone(initial.value)
         THEN PGPatchDatum(ADD, "value", NoneV, updated.value, updated.sequence)
    ELSE IF IsNone(updated.value)
         THEN PGPatchDatum(DELETE, "value", initial.value, NoneV, updated.sequence)
    ELSE PGPatchDatum(UPDATE, "value", initial.value, updated.value, updated.sequence)

DataColumnValuePatches(initial, updated) ==
    IF initial.value = updated.value THEN NoneV
    ELSE IF IsNone(initial.value)
         THEN DTPatchDatum(ADD, "value", NoneV, updated.value, initial.sequence)
    ELSE IF IsNone(updated.value)
         THEN DTPatchDatum(DELETE, "value", initial.value, NoneV, initial.sequence)
    ELSE DTPatchDatum(UPDATE, "value", initial.value, updated.value, initial.sequence)

\* _normalize_validation, lines 21-32: every enum value of every entry of a
\* validation list without its original_text
NormalizeValidation(validation) ==
    IF IsNone(validation) THEN validation
    ELSE ListV([i \in DOMAIN validation.items |->
                  IF IsList(validation.items[i].value)
                  THEN [validation.items[i] EXCEPT !.value =
                          ListV([j \in DOMAIN @.items |->
                                   EnumValidationValue(@.items[j].id, @.items[j].text)])]
                  ELSE validation.items[i]])

\* the copy whose enum values are cleared: a validation of one ENUM entry
ClearEnumValues(validation) ==
    IF IsNone(validation) THEN validation
    ELSE IF Len(validation.items) = 1 /\ validation.items[1].datatype = ENUM
         THEN ListV(<<[validation.items[1] EXCEPT !.value = NoneV]>>)
    ELSE validation

DataColumnValidationUpdate(initial_copy, updated_copy) ==
    IF initial_copy # updated_copy
    THEN DTPatchDatum(UPDATE, "validation", initial_copy, updated_copy, NoneV)
    ELSE NoneV

data_column_validation_patches(initial, updated) ==
    IF initial.validation = updated.validation THEN NoneV
    ELSE IF IsNone(initial.validation)
         THEN DTPatchDatum(ADD, "validation", NoneV, updated.validation, NoneV)
    ELSE IF IsNone(updated.validation)
         THEN DTPatchDatum(DELETE, "validation", initial.validation, NoneV, NoneV)
    ELSE DataColumnValidationUpdate(ClearEnumValues(initial.validation), ClearEnumValues(updated.validation))

ParameterValidationPatchOf(initial_copy, updated_copy, rowId) ==
    IF initial_copy = updated_copy THEN NoneV
    ELSE IF IsNone(initial_copy)
         THEN PGPatchDatum(ADD, "validation", NoneV, updated_copy, rowId)
    ELSE IF IsNone(updated_copy)
         THEN PGPatchDatum(DELETE, "validation", initial_copy, NoneV, rowId)
    ELSE PGPatchDatum(UPDATE, "validation", NoneV, updated_copy, rowId)

parameter_validation_patch(initial, updated) ==
    ParameterValidationPatchOf(ClearEnumValues(initial.validation), ClearEnumValues(updated.validation), updated.sequence)

\* `if initial is None: initial = []`
ChildrenOrEmpty(children) == IF IsNone(children) THEN <<>> ELSE children.items

SequencesOf(children) == {children[i].sequence : i \in DOMAIN children}

\* `not x.sequence`: None or the empty string
NoSequence(child) == IsNone(child.sequence) \/ child.sequence = StrV(<<>>)

NewChildren(initial, updated) ==
    LET new(x) == x.sequence \notin SequencesOf(initial) \/ NoSequence(x)
    IN  SelectSeq(updated, new)

\* a plausible slip in lines 373-375: every existing child counts as deleted
DeletedChildrenAll(initial, updated) == initial

DeletedChildren(initial, updated) ==
    LET deleted(x) == x.sequence \notin SequencesOf(updated)
    IN  SelectSeq(initial, deleted)

MatchedChildren(initial, updated) ==
    LET matched(x) == x.sequence \in SequencesOf(initial)
    IN  SelectSeq(updated, matched)

ChildGroups(initial, updated) == [new |-> NewChildren(initial, updated), deleted |-> DeletedChildren(initial, updated), matched |-> MatchedChildren(initial, updated)]

\* next(x for x in initial if x.sequence == updated.sequence)
InitialChild(initial, updated_child) ==
    LET same(x) == x.sequence = updated_child.sequence
    IN  Head(SelectSeq(initial, same))

\* updated.validation is not None and != [] and its first entry is an ENUM
HasEnumValidation(child) ==
    /\ ~IsNone(child.validation)
    /\ Len(child.validation.items) > 0
    /\ child.validation.items[1].datatype = ENUM

\* existing.validation[0].value and updated.validation[0].value are iterated:
\* no validation, an empty validation, or a value of None raises
EnumValuesRaise(existing, updated) ==
    \/ IsNone(existing.validation)
    \/ Len(existing.validation.items) = 0
    \/ IsNone(existing.validation.items[1].value)
    \/ IsNone(updated.validation.items[1].value)

\* what iterating a validation value yields: the items of a list; the
\* characters of a str, none of which is an EnumValidationValue
EnumValuesOf(child) ==
    IF IsList(child.validation.items[1].value) THEN child.validation.items[1].value.items
    ELSE <<>>

ChildEnumPatches(existing, updated) ==
    IF HasEnumValidation(updated)
    THEN <<[sequence |-> updated.sequence, patches |-> generate_enum_patches(EnumValuesOf(existing), EnumValuesOf(updated))]>>
    ELSE <<>>

RaisedPatches == [raised |-> TRUE, patches |-> <<>>, new |-> <<>>, enum_patches |-> <<>>]

ReturnedPatches(patches, new, enum_patches) == [raised |-> FALSE, patches |-> patches, new |-> new, enum_patches |-> enum_patches]

ParameterChildPatches(existing, updated) ==
    Present(ParameterUnitPatches(existing, updated))
        \o Present(ParameterValuePatches(existing, updated))
        \o Present(parameter_validation_patch(existing, updated))

\* one pass of the loop over the matched parameters, before the later passes
ParameterStep(existing, updated, later) ==
    IF HasEnumValidation(updated) /\ EnumValuesRaise(existing, updated) THEN RaisedPatches
    ELSE IF later.raised THEN RaisedPatches
    ELSE ReturnedPatches(ParameterChildPatches(existing, updated) \o later.patches, <<>>,
                         ChildEnumPatches(existing, updated) \o later.enum_patches)

RECURSIVE ParameterLoop(_, _)
ParameterLoop(initial, matched) ==
    IF Len(matched) = 0 THEN ReturnedPatches(<<>>, <<>>, <<>>)
    ELSE ParameterStep(InitialChild(initial, Head(matched)), Head(matched),
                       ParameterLoop(initial, Tail(matched)))

SequenceOf(child) == child.sequence

DeletedParametersPatch(deleted, parameter_attribute_name) ==
    IF Len(deleted) > 0
    THEN <<PGPatchDatum(DELETE, parameter_attribute_name, ListV(MapSeq(SequenceOf, deleted)), NoneV, NoneV)>>
    ELSE <<>>

WithGroups(looped, first_patches, new) ==
    IF looped.raised THEN RaisedPatches
    ELSE ReturnedPatches(first_patches \o looped.patches, new, looped.enum_patches)

GenerateParameterPatchesOf(initial, groups, parameter_attribute_name) ==
    WithGroups(ParameterLoop(initial, groups.matched),
               DeletedParametersPatch(groups.deleted, parameter_attribute_name), groups.new)

generate_parameter_patches(initial_parameters, updated_parameters, parameter_attribute_name) ==
    GenerateParameterPatchesOf(ChildrenOrEmpty(initial_parameters),
        ChildGroups(ChildrenOrEmpty(initial_parameters), ChildrenOrEmpty(updated_parameters)),
        parameter_attribute_name)

\* "actions cannot have colId, so we need to remove it"
WithoutColId(action) == [action EXCEPT !.colId = NoneV]

DataColumnActions(initial, updated) ==
    MapSeq(WithoutColId, Present(DataColumnValuePatches(initial, updated))
                             \o Present(data_column_validation_patches(initial, updated)))

DataColumnGeneralPatch(actions, colId) ==
    IF Len(actions) > 0 THEN <<GeneralPatchDatum("datacolumn", actions, colId)>> ELSE <<>>

DataColumnChildPatches(initial, updated) ==
    DataColumnGeneralPatch(DataColumnActions(initial, updated), updated.sequence)
        \o Present(DataColumnUnitPatches(initial, updated))

DataColumnStep(existing, updated, later) ==
    IF HasEnumValidation(updated) /\ EnumValuesRaise(existing, updated) THEN RaisedPatches
    ELSE IF later.raised THEN RaisedPatches
    ELSE ReturnedPatches(DataColumnChildPatches(existing, updated) \o later.patches, <<>>,
                         ChildEnumPatches(existing, updated) \o later.enum_patches)

RECURSIVE DataColumnLoop(_, _)
DataColumnLoop(initial, matched) ==
    IF Len(matched) = 0 THEN ReturnedPatches(<<>>, <<>>, <<>>)
    ELSE DataColumnStep(InitialChild(initial, Head(matched)), Head(matched),
                        DataColumnLoop(initial, Tail(matched)))

DeletedDataColumnPatch(child) == DTPatchDatum(DELETE, "datacolumn", child.sequence, NoneV, NoneV)

GenerateDataColumnPatchesOf(initial, groups) ==
    WithGroups(DataColumnLoop(initial, groups.matched),
               MapSeq(DeletedDataColumnPatch, groups.deleted), groups.new)

generate_data_column_patches(initial_data_column, updated_data_column) ==
    GenerateDataColumnPatchesOf(ChildrenOrEmpty(initial_data_column),
        ChildGroups(ChildrenOrEmpty(initial_data_column), ChildrenOrEmpty(updated_data_column)))

(* Inputs of the child comparators *)

MaxChildren == 2

ChildSequences == <<StrV(<<"S", "1">>), StrV(<<"S", "2">>)>>

NumberValidation == ListV(<<ValueValidation("number", NoneV)>>)

EnumValidation(text) == ListV(<<ValueValidation(ENUM, ListV(<<EnumValidationValue(StrV(<<"1">>), text)>>))>>)

\* the ENUM entry of a validation list whose one enum value "A" came back
\* from the platform with the given original_text
EnumEntry(original_text) ==
    ValueValidation(ENUM, ListV(<<EnumValidationValueWith(StrV(<<"1">>), "A", original_text)>>))

NumberEntry == ValueValidation("number", NoneV)

\* [unit, value, validation] of a child: a base, and variations of each part
ChildAttributes ==
    { <<E1, StrV(<<"x">>), NumberValidation>>,
      <<E2, StrV(<<"x">>), NumberValidation>>,
      <<EntityLink(EntityId(1), StrV(<<"n">>)), StrV(<<"x">>), NumberValidation>>,
      <<E1, StrV(<<"y">>), NumberValidation>>,
      <<NoneV, NoneV, NoneV>>,
      <<E1, StrV(<<"x">>), EnumValidation("A")>>,
      <<E1, StrV(<<"x">>), EnumValidation("B")>>,
      <<E1, StrV(<<"x">>), ListV(<<EnumEntry(StrV(<<"a">>))>>)>>,
      <<E1, StrV(<<"x">>), ListV(<<EnumEntry(NoneV), NumberEntry>>)>>,
      <<E1, StrV(<<"x">>), ListV(<<EnumEntry(StrV(<<"a">>)), NumberEntry>>)>> }

ChildrenWith(sequences) ==
    {Child(sequence, a[1], a[2], a[3]) : sequence \in sequences, a \in ChildAttributes}

\* the children the platform returned: each has the sequence the platform
\* assigned, in the order of assignment
InitialChildLists ==
    {s \in SeqsUpTo(ChildrenWith({ChildSequences[i] : i \in 1..MaxChildren}), MaxChildren) :
        \A i \in DOMAIN s : s[i].sequence = ChildSequences[i]}

\* the children the caller passes: a child may have no sequence yet; no
\* sequence occurs twice
UpdatedChildLists ==
    {s \in SeqsUpTo(ChildrenWith({ChildSequences[i] : i \in 1..MaxChildren} \cup {NoneV}), MaxChildren) :
        \A i, j \in DOMAIN s : (i # j /\ ~NoSequence(s[i])) => s[i].sequence # s[j].sequence}

OptionalList(lists) == {NoneV} \cup {ListV(s) : s \in lists}

NoGroups == [new |-> <<>>, deleted |-> <<>>, matched |-> <<>>]

ChInit ==
    /\ ch_initial \in OptionalList(InitialChildLists)
    /\ ch_updated \in OptionalList(UpdatedChildLists)
    /\ ch_kind = "none"
    /\ ch_parts = NoGroups
    /\ ch_result = ReturnedPatches(<<>>, <<>>, <<>>)
    /\ ch_pc = "call"

\* generate_parameter_patches up to the three list comprehensions
ParameterPartition ==
    /\ ch_pc = "call"
    /\ ch_kind' = "parameter"
    /\ ch_parts' = ChildGroups(ChildrenOrEmpty(ch_initial), ChildrenOrEmpty(ch_updated))
    /\ ch_pc' = "partitioned"
    /\ UNCHANGED <<ch_initial, ch_updated, ch_result>>
    /\ UNCHANGED <<mdVars, ppVars, lotVars, callVars, enVars, pgVars, etVars, adVars, lpVars>>

\* generate_parameter_patches from the deleted parameters to its return
ParameterCompare ==
    /\ ch_pc = "partitioned"
    /\ ch_kind = "parameter"
    /\ ch_result' = generate_parameter_patches(ch_initial, ch_updated, "parameters")
    /\ ch_pc' = "done"
    /\ UNCHANGED <<ch_initial, ch_updated, ch_kind, ch_parts>>
    /\ UNCHANGED <<mdVars, ppVars, lotVars, callVars, enVars, pgVars, etVars, adVars, lpVars>>

DataColumnPartition ==
    /\ ch_pc = "call"
    /\ ch_kind' = "datacolumn"
    /\ ch_parts' = ChildGroups(ChildrenOrEmpty(ch_initial), ChildrenOrEmpty(ch_updated))
    /\ ch_pc' = "partitioned"
    /\ UNCHANGED <<ch_initial, ch_updated, ch_result>>
    /\ UNCHANGED <<mdVars, ppVars, lotVars, callVars, enVars, pgVars, etVars, adVars, lpVars>>

DataColumnCompare ==
    /\ ch_pc = "partitioned"
    /\ ch_kind = "datacolumn"
    /\ ch_result' = generate_data_column_patches(ch_initial, ch_updated)
    /\ ch_pc' = "done"
    /\ UNCHANGED <<ch_initial, ch_updated, ch_kind, ch_parts>>
    /\ UNCHANGED <<mdVars, ppVars, lotVars, callVars, enVars, pgVars, etVars, adVars, lpVars>>

\* data_templates.py, lines 614-625: a new parameter whose first validation
\* entry is an ENUM is turned into a STRING without value before the PUT
WithoutEnum(p) ==
    IF HasEnumValidation(p)
    THEN [p EXCEPT !.validation = ListV([@.items EXCEPT ![1] = ValueValidation("string", NoneV)])]
    ELSE p

\* the updated list after the loop of lines 614-625 has run over the new
\* parameters, which are the objects of the caller's list
WithoutNewEnums(initial, updated) ==
    [i \in DOMAIN updated |->
        IF updated[i].sequence \notin SequencesOf(initial) \/ NoSequence(updated[i])
        THEN WithoutEnum(updated[i])
        ELSE updated[i]]

\* DataTemplateCollection.update, lines 612-632: the new parameters are
\* prepared and PUT
PutNewParameters ==
    /\ ch_pc = "done"
    /\ ch_kind = "parameter"
    /\ ~ch_result.raised
    /\ Len(ch_result.new) > 0
    /\ ch_updated' = ListV(WithoutNewEnums(ChildrenOrEmpty(ch_initial), ch_updated.items))
    /\ ch_pc' = "put"
    /\ UNCHANGED <<ch_initial, ch_kind, ch_parts, ch_result>>
    /\ UNCHANGED <<mdVars, ppVars, lotVars, callVars, enVars, pgVars, etVars, adVars, lpVars>>

ChIdle ==
    /\ ch_initial = NoneV
    /\ ch_updated = NoneV
    /\ ch_kind = "none"
    /\ ch_parts = NoGroups
    /\ ch_result = ReturnedPatches(<<>>, <<>>, <<>>)
    /\ ch_pc = "idle"

-----------------------------------------------------------------------------
(* AlbertPaginator: core/pagination.py *)

DEFAULT_LIMIT == 1000

OFFSET == "offset"

KEY == "key"

\* an int, among values that may be None
NatV(n) == [k |-> "nat", n |-> n]

\* `not value` for a value that is None, an int or a str
Falsy(value) ==
    \/ IsNone(value)
    \/ value.k = "nat" /\ value.n = 0
    \/ value = StrV(<<>>)

\* AlbertPaginator.__init__: setdefault("limit", DEFAULT_LIMIT) in OFFSET mode
InitialParams(mode) == [limit |-> IF mode = OFFSET THEN NatV(DEFAULT_LIMIT) ELSE NoneV, offset |-> NoneV, startKey |-> NoneV]

NoPage == [Items |-> 0, lastKey |-> NoneV, offset |-> NoneV]

InitialLocals == [yielded |-> 0, seen_keys |-> {}, pending |-> 0]

(* Inputs of the paginator *)

MaxItems == 2

MaxPageItems == 2

MaxRequests == 3

PageKeys == {NoneV, StrV(<<>>), StrV(<<"k", "1">>), StrV(<<"k", "2">>)}

PageOffsets == {NoneV, NatV(0), NatV(1)}

\* a page of the server: the number of its items, its lastKey and its offset
Pages == [Items : 0..MaxPageItems, lastKey : PageKeys, offset : PageOffsets]

PgInit ==
    /\ pg_cfg \in [mode : {OFFSET, KEY}, max_items : {NoneV} \cup {NatV(n) : n \in 0..MaxItems}]
    /\ pg_pc = "request"
    /\ pg_data = NoPage
    /\ pg_local = InitialLocals
    /\ pg_params = InitialParams(pg_cfg.mode)
    /\ pg_last_key = NoneV
    /\ pg_out = 0
    /\ pg_requests = 0

\* the request of a page; the caller's deserialize returns one object per item
\* or leaves some out; an empty page ends an OFFSET iteration
RequestPage ==
    /\ pg_pc = "request"
    /\ pg_requests < MaxRequests
    /\ \E page \in Pages : \E deserialized \in 0..page.Items :
          /\ pg_data' = page
          /\ pg_local' = [pg_local EXCEPT !.pending = deserialized]
          /\ pg_pc' = IF page.Items = 0 /\ pg_cfg.mode = OFFSET THEN "done" ELSE "items"
    /\ pg_requests' = pg_requests + 1
    /\ UNCHANGED <<pg_cfg, pg_params, pg_last_key, pg_out>>
    /\ UNCHANGED <<mdVars, ppVars, lotVars, callVars, enVars, chVars, etVars, adVars, lpVars>>

\* `yield item`: the iterator hands over the next item of the page
YieldItem ==
    /\ pg_pc = "items"
    /\ pg_local.pending > 0
    /\ pg_out' = pg_out + 1
    /\ pg_local' = [pg_local EXCEPT !.pending = @ - 1]
    /\ pg_pc' = "yielded"
    /\ UNCHANGED <<pg_cfg, pg_data, pg_params, pg_last_key, pg_requests>>
    /\ UNCHANGED <<mdVars, ppVars, lotVars, callVars, enVars, chVars, etVars, adVars, lpVars>>

\* self.max_items is not None and yielded >= self.max_items
ReachedMaxItems(max_items, yielded) == ~IsNone(max_items) /\ yielded >= max_items.n

\* the iterator is resumed after a yield: it counts the item and tests max_items
CountItem ==
    /\ pg_pc = "yielded"
    /\ pg_local' = [pg_local EXCEPT !.yielded = @ + 1]
    /\ pg_pc' = IF ReachedMaxItems(pg_cfg.max_items, pg_local.yielded + 1) THEN "done" ELSE "items"
    /\ UNCHANGED <<pg_cfg, pg_data, pg_params, pg_last_key, pg_out, pg_requests>>
    /\ UNCHANGED <<mdVars, ppVars, lotVars, callVars, enVars, chVars, etVars, adVars, lpVars>>

\* KEY mode: a missing or repeated lastKey ends the iteration
KeyEnds(data, seen_keys) == IsNone(data.lastKey) \/ data.lastKey \in seen_keys

\* _update_params returns False
UpdateParamsEnds(mode, data) == IF mode = OFFSET THEN Falsy(data.offset) ELSE Falsy(data.lastKey)

\* _update_params: the parameters of the next request
UpdateParams(mode, data, params) ==
    IF mode = OFFSET
    THEN IF Falsy(data.offset) THEN params ELSE [params EXCEPT !.offset = NatV(data.offset.n + data.Items)]
    ELSE IF Falsy(data.lastKey) THEN params ELSE [params EXCEPT !.startKey = data.lastKey]

\* the page is used up: the tests on lastKey, then _update_params
EndOfPage ==
    /\ pg_pc = "items"
    /\ pg_local.pending = 0
    /\ IF pg_cfg.mode = KEY /\ KeyEnds(pg_data, pg_local.seen_keys)
       THEN /\ pg_pc' = "done"
            /\ UNCHANGED <<pg_local, pg_params, pg_last_key>>
       ELSE /\ pg_local' = IF pg_cfg.mode = KEY THEN [pg_local EXCEPT !.seen_keys = @ \cup {pg_data.lastKey}] ELSE pg_local
            /\ pg_last_key' = IF pg_cfg.mode = KEY THEN pg_data.lastKey ELSE pg_last_key
            /\ pg_params' = UpdateParams(pg_cfg.mode, pg_data, pg_params)
            /\ pg_pc' = IF UpdateParamsEnds(pg_cfg.mode, pg_data) THEN "done" ELSE "request"
    /\ UNCHANGED <<pg_cfg, pg_data, pg_out, pg_requests>>
    /\ UNCHANGED <<mdVars, ppVars, lotVars, callVars, enVars, chVars, etVars, adVars, lpVars>>

PgIdle ==
    /\ pg_cfg = [mode |-> OFFSET, max_items |-> NoneV]
    /\ pg_pc = "idle"
    /\ pg_data = NoPage
    /\ pg_local = InitialLocals
    /\ pg_params = InitialParams(OFFSET)
    /\ pg_last_key = NoneV
    /\ pg_out = 0
    /\ pg_requests = 0

-----------------------------------------------------------------------------
(* The entity types EntityTypeCollection.update builds its payload for *)

Visibility(notes, tags) == ObjectV([notes |-> BoolV(notes), tags |-> BoolV(tags)])

QueryStrings(dat, prg) == ObjectV([DAT |-> dat, PRG |-> prg])

EntityTypes ==
    [label : {StrV(<<"n">>), StrV(<<"m">>)},
     custom_fields : {NoneV, ListV(<<StrV(<<"f">>)>>), ListV(<<StrV(<<"f">>), StrV(<<"g">>)>>)},
     standard_field_visibility : {NoneV, Visibility(TRUE, FALSE), Visibility(FALSE, FALSE), Visibility(FALSE, TRUE)},
     search_query_string : {NoneV, QueryStrings(NoneV, NoneV), QueryStrings(StrV(<<"q">>), NoneV)}]

EtInit ==
    /\ et_existing \in EntityTypes
    /\ et_updated \in EntityTypes
    /\ et_result = Returned(<<>>)
    /\ et_pc = "call"

\* update() builds the payload of its PATCH from the fetched entity type
EntityTypeUpdatePayload ==
    /\ et_pc = "call"
    /\ et_result' = EntityTypePayload(et_existing, et_updated)
    /\ et_pc' = "done"
    /\ UNCHANGED <<et_existing, et_updated>>
    /\ UNCHANGED <<mdVars, ppVars, lotVars, callVars, enVars, chVars, pgVars, adVars, lpVars>>

EtIdle ==
    /\ et_existing = <<>>
    /\ et_updated = <<>>
    /\ et_result = Returned(<<>>)
    /\ et_pc = "idle"

-----------------------------------------------------------------------------
(* Two LotCollection.adjust calls on the same lot, their requests interleaved *)

ConcurrentQuantities ==
    {FloatV(FALSE, <<5>>, <<0>>),
     FloatV(FALSE, <<2>>, <<5>>),
     FloatV(FALSE, <<1>>, <<0, 0, 0, 0, 0, 0, 0, 0, 0, 0, 0, 0, 0, 0, 5>>),
     FloatV(FALSE, <<0>>, <<0>>)}

ConcurrentCalls == [action : {"ADD", "SUBTRACT", "SET"}, quantity : ConcurrentQuantities]

AdInit ==
    /\ ad_calls \in [1..2 -> ConcurrentCalls]
    /\ ad_initial \in StoredInventories
    /\ ad_lot = StoredLot(ad_initial, NoneV, NoneV)
    /\ ad_pc = <<"start", "start">>
    /\ ad_existing = <<NoneV, NoneV>>

\* lines 367-371, in one of the two calls
ConcurrentValidate ==
    /\ \E i \in 1..2 :
          /\ ad_pc[i] = "start"
          /\ ad_pc' = [ad_pc EXCEPT ![i] =
                          IF AdjustRejects(ad_calls[i].action, ad_calls[i].quantity)
                          THEN "raised" ELSE "get"]
    /\ UNCHANGED <<ad_calls, ad_existing, ad_lot, ad_initial>>
    /\ UNCHANGED <<mdVars, ppVars, lotVars, callVars, enVars, chVars, pgVars, etVars, lpVars>>

\* line 373: the call fetches the lot as it is stored now
ConcurrentGet ==
    /\ \E i \in 1..2 : \E ok \in BOOLEAN :
          /\ ad_pc[i] = "get"
          /\ ad_pc' = [ad_pc EXCEPT ![i] = IF ok THEN "patch" ELSE "raised"]
          /\ ad_existing' = [ad_existing EXCEPT ![i] = IF ok THEN ad_lot ELSE @]
    /\ UNCHANGED <<ad_calls, ad_lot, ad_initial>>
    /\ UNCHANGED <<mdVars, ppVars, lotVars, callVars, enVars, chVars, pgVars, etVars, lpVars>>

\* lines 374-400: the call sends its PATCH, which the platform applies to the
\* lot as it is stored now
ConcurrentPatch ==
    /\ \E i \in 1..2 : \E ok \in BOOLEAN :
          /\ ad_pc[i] = "patch"
          /\ ad_pc' = [ad_pc EXCEPT ![i] = IF ok THEN "refetch" ELSE "raised"]
          /\ ad_lot' = IF ok
                       THEN ApplyData(ad_lot, AdjustPayload(ad_existing[i], ad_calls[i].action,
                                                            ad_calls[i].quantity, NoneV).data)
                       ELSE ad_lot
    /\ UNCHANGED <<ad_calls, ad_existing, ad_initial>>
    /\ UNCHANGED <<mdVars, ppVars, lotVars, callVars, enVars, chVars, pgVars, etVars, lpVars>>

\* line 401
ConcurrentRefetch ==
    /\ \E i \in 1..2 : \E ok \in BOOLEAN :
          /\ ad_pc[i] = "refetch"
          /\ ad_pc' = [ad_pc EXCEPT ![i] = IF ok THEN "done" ELSE "raised"]
    /\ UNCHANGED <<ad_calls, ad_existing, ad_lot, ad_initial>>
    /\ UNCHANGED <<mdVars, ppVars, lotVars, callVars, enVars, chVars, pgVars, etVars, lpVars>>

\* no pair of calls is under way
AdIdle ==
    /\ ad_calls = <<>>
    /\ ad_pc = <<>>
    /\ ad_existing = <<>>
    /\ ad_lot = NoneV
    /\ ad_initial = NoneV

-----------------------------------------------------------------------------
(* AlbertPaginator: utils/pagination.py *)

\* __init__, lines 41-42: the caller's params without those that are None
LegacyParams(limit) == [limit |-> limit, offset |-> NoneV, startKey |-> NoneV]

\* lines 69-71: the page ends the iteration before any of its items is read
Insufficient(params, item_count) ==
    \/ item_count = 0
    \/ ~IsNone(params.limit) /\ item_count < params.limit.n

LpInit ==
    /\ lp_mode \in {OFFSET, KEY}
    /\ lp_params \in {LegacyParams(limit) : limit \in {NoneV, NatV(MaxPageItems)}}
    /\ lp_pc = "request"
    /\ lp_data = NoPage
    /\ lp_rest = 0
    /\ lp_yielded = 0
    /\ lp_fetched = 0
    /\ lp_requests = 0

\* lines 62-72: the request of a page, of whose items deserialize turns
\* `deserialized` into a value
LegacyRequestPage ==
    /\ lp_pc = "request"
    /\ lp_requests < MaxRequests
    /\ \E page \in Pages : \E deserialized \in 0..page.Items :
          /\ lp_data' = page
          /\ lp_fetched' = lp_fetched + deserialized
          /\ IF Insufficient(lp_params, page.Items)
             THEN lp_pc' = "done" /\ lp_rest' = 0
             ELSE lp_pc' = "items" /\ lp_rest' = deserialized
    /\ lp_requests' = lp_requests + 1
    /\ UNCHANGED <<lp_mode, lp_params, lp_yielded>>
    /\ UNCHANGED <<mdVars, ppVars, lotVars, callVars, enVars, chVars, pgVars, etVars, adVars>>

\* lines 74-78: `yield item_deser`
LegacyYieldItem ==
    /\ lp_pc = "items"
    /\ lp_rest > 0
    /\ lp_yielded' = lp_yielded + 1
    /\ lp_rest' = lp_rest - 1
    /\ UNCHANGED <<lp_mode, lp_params, lp_pc, lp_data, lp_fetched, lp_requests>>
    /\ UNCHANGED <<mdVars, ppVars, lotVars, callVars, enVars, chVars, pgVars, etVars, adVars>>

\* lines 80-82 with _update_params, lines 44-58, which reads the page as the
\* paginator of core/pagination.py does
LegacyEndOfPage ==
    /\ lp_pc = "items"
    /\ lp_rest = 0
    /\ lp_params' = UpdateParams(lp_mode, lp_data, lp_params)
    /\ lp_pc' = IF UpdateParamsEnds(lp_mode, lp_data) THEN "done" ELSE "request"
    /\ UNCHANGED <<lp_mode, lp_data, lp_rest, lp_yielded, lp_fetched, lp_requests>>
    /\ UNCHANGED <<mdVars, ppVars, lotVars, callVars, enVars, chVars, pgVars, etVars, adVars>>

\* no legacy paginator is iterated
LpIdle ==
    /\ lp_mode = "none"
    /\ lp_params = LegacyParams(NoneV)
    /\ lp_pc = "idle"
    /\ lp_data = NoPage
    /\ lp_rest = 0
    /\ lp_yielded = 0
    /\ lp_fetched = 0
    /\ lp_requests = 0

MoreIdle == EnIdle /\ ChIdle /\ PgIdle /\ EtIdle /\ AdIdle /\ LpIdle

-----------------------------------------------------------------------------
(* Specifications *)

\* the metadata differ applied to every pair of mappings
MdNext == MdCall /\ UNCHANGED <<ppVars, lotVars, callVars, moreVars>>

InitMeta == MdInit /\ PpIdle /\ LotIdle /\ CallIdle /\ MoreIdle

SpecMeta == InitMeta /\ [][MdNext]_vars

\* the generic builder applied to every pair of resources
PpNext == PpCall /\ UNCHANGED <<mdVars, lotVars, callVars, moreVars>>

InitPatch == PpInit /\ MdIdle /\ LotIdle /\ CallIdle /\ MoreIdle

SpecPatch == InitPatch /\ [][PpNext]_vars

\* the lots generator applied to every pair of lots
LotNext == LotCall /\ UNCHANGED <<mdVars, ppVars, callVars, moreVars>>

InitLots == LotInit /\ MdIdle /\ PpIdle /\ CallIdle /\ MoreIdle

SpecLots == InitLots /\ [][LotNext]_vars

\* one collection call at a time against the platform
CallNext ==
    \/ AdjustValidate
    \/ AdjustGet
    \/ AdjustPatch
    \/ AdjustRefetch
    \/ TransferValidate
    \/ TransferGet
    \/ TransferPatch
    \/ TransferRefetch
    \/ TransferCurrentUser
    \/ TransferSplit
    \/ UpdateGet
    \/ UpdateSend
    \/ UpdateRefetch

InitCalls == CallInit /\ MdIdle /\ PpIdle /\ LotIdle /\ MoreIdle

SpecCalls == InitCalls /\ [][CallNext]_vars

\* the two enum comparisons applied to every pair of value lists
EnNext ==
    \/ GenerateEnumPatchesCall
    \/ AddParamEnumsCall

InitEnum == EnInit /\ MdIdle /\ PpIdle /\ LotIdle /\ CallIdle /\ ChIdle /\ PgIdle /\ EtIdle /\ AdIdle /\ LpIdle

SpecEnum == InitEnum /\ [][EnNext]_vars

\* the two child comparators applied to every pair of child lists
ChNext ==
    \/ ParameterPartition
    \/ ParameterCompare
    \/ DataColumnPartition
    \/ DataColumnCompare
    \/ PutNewParameters

InitChildren == ChInit /\ MdIdle /\ PpIdle /\ LotIdle /\ CallIdle /\ EnIdle /\ PgIdle /\ EtIdle /\ AdIdle /\ LpIdle

SpecChildren == InitChildren /\ [][ChNext]_vars

\* one paginator iterated against every sequence of pages
PgNext ==
    \/ RequestPage
    \/ YieldItem
    \/ CountItem
    \/ EndOfPage

InitPager == PgInit /\ MdIdle /\ PpIdle /\ LotIdle /\ CallIdle /\ EnIdle /\ ChIdle /\ EtIdle /\ AdIdle /\ LpIdle

SpecPager == InitPager /\ [][PgNext]_vars

\* the payload of EntityTypeCollection.update for every pair of entity types
EtNext == EntityTypeUpdatePayload

InitEntityTypes == EtInit /\ MdIdle /\ PpIdle /\ LotIdle /\ CallIdle /\ EnIdle /\ ChIdle /\ PgIdle /\ AdIdle /\ LpIdle

SpecEntityTypes == InitEntityTypes /\ [][EtNext]_vars

\* two adjust calls on one lot, in every interleaving of their steps
AdNext ==
    \/ ConcurrentValidate
    \/ ConcurrentGet
    \/ ConcurrentPatch
    \/ ConcurrentRefetch

InitConcurrent == AdInit /\ MdIdle /\ PpIdle /\ LotIdle /\ CallIdle /\ EnIdle /\ ChIdle /\ PgIdle /\ EtIdle /\ LpIdle

SpecConcurrent == InitConcurrent /\ [][AdNext]_vars

\* one legacy paginator iterated against every sequence of pages
LpNext ==
    \/ LegacyRequestPage
    \/ LegacyYieldItem
    \/ LegacyEndOfPage

InitLegacyPager == LpInit /\ MdIdle /\ PpIdle /\ LotIdle /\ CallIdle /\ EnIdle /\ ChIdle /\ PgIdle /\ EtIdle /\ AdIdle

SpecLegacyPager == InitLegacyPager /\ [][LpNext]_vars

-----------------------------------------------------------------------------
(* Claims about the metadata differ *)

\* the data of an outcome that are addressed to one attribute
DataFor(result, attribute) ==
    SelectSeq(result.data, LAMBDA d : d.attribute = attribute)

\* what the two loops contribute for one key
KeyDiff(key, existing_metadata, updated_metadata) ==
    LET existing == IF IsNone(existing_metadata) THEN DictV(<<>>) ELSE existing_metadata
        updated == IF IsNone(updated_metadata) THEN DictV(<<>>) ELSE updated_metadata
    IN  Extend(IF HasKey(existing, key) THEN ExistingKeyDiff(key, existing, updated)
               ELSE Returned(<<>>),
               IF HasKey(updated, key) THEN UpdatedKeyDiff(key, existing, updated)
               ELSE Returned(<<>>))

\* the value of a key in a metadata argument; None when the key (or the mapping) is missing
ItemOf(metadata, key) ==
    IF IsNone(metadata) \/ ~HasKey(metadata, key) THEN NoneV ELSE metadata.map[key]

KeyPresent(metadata, key) == ~IsNone(metadata) /\ HasKey(metadata, key)

\* the id set of a linked entity or of a list of linked entities
IdsOf(v) == IF IsList(v) THEN IdSet(v.items) ELSE {StrV(v.id)}

\* a list value holding exactly the elements of S, each once
IsListOf(v, S) ==
    /\ IsList(v)
    /\ Len(v.items) = Cardinality(S)
    /\ {v.items[i] : i \in 1..Len(v.items)} = S

\* the datum list the claim C2 prescribes for one key
ListDeltaAsClaimed(data, attribute, E, U) ==
    IF E = U THEN data = <<>>
    ELSE IF (U \ E) # {} /\ (E \ U) # {}
    THEN data = <<PatchDatum(attribute, UPDATE, SetV(E), SetV(U))>>
    ELSE IF (U \ E) # {}
    THEN /\ Len(data) = 1
         /\ data[1].attribute = attribute
         /\ data[1].operation = ADD
         /\ data[1].old_value = NoneV
         /\ IsListOf(data[1].new_value, U \ E)
    ELSE /\ Len(data) = 1
         /\ data[1].attribute = attribute
         /\ data[1].operation = DELETE
         /\ data[1].new_value = NoneV
         /\ IsListOf(data[1].old_value, E \ U)

\* the case of C2: the key is present and not None on both sides, its updated
\* value is a list of linked entities, its existing value a linked entity or a list
LinkedListCase(key) ==
    /\ KeyPresent(md_existing, key) /\ KeyPresent(md_updated, key)
    /\ IsList(ItemOf(md_updated, key))
    /\ IsList(ItemOf(md_existing, key)) \/ HasId(ItemOf(md_existing, key))

\* C2: for a key present on both sides whose updated value is a list of linked
\* entities, with E and U the id sets of the existing and the updated value, the
\* differ emits nothing when E = U, one UPDATE with the full sets E and U when
\* both differences are non-empty, one ADD with U \ E when only that is
\* non-empty, and one DELETE with E \ U when only that is non-empty.
C2_LinkedListDelta ==
    md_pc = "done" =>
        \A i \in 1..Len(MetadataKeys) :
            LET key == MetadataKeys[i]
                E == IdsOf(ItemOf(md_existing, key))
                U == IdsOf(ItemOf(md_updated, key))
                own == KeyDiff(key, md_existing, md_updated)
            IN  LinkedListCase(key) =>
                    /\ ~own.raised
                    /\ ListDeltaAsClaimed(own.data, MetadataAttribute(key), E, U)
                    /\ ~md_result.raised =>
                          ListDeltaAsClaimed(DataFor(md_result, MetadataAttribute(key)),
                                             MetadataAttribute(key), E, U)

\* C2 witness: a call that returned an UPDATE for "a" whose lists differ both ways
C2_Witness ==
    /\ md_pc = "done"
    /\ LinkedListCase("a")
    /\ IdsOf(ItemOf(md_updated, "a")) \ IdsOf(ItemOf(md_existing, "a")) # {}
    /\ IdsOf(ItemOf(md_existing, "a")) \ IdsOf(ItemOf(md_updated, "a")) # {}
    /\ Cardinality(IdsOf(ItemOf(md_existing, "a"))) = 2
    /\ ~md_result.raised
    /\ Len(DataFor(md_result, "Metadata.a")) = 1
    /\ DataFor(md_result, "Metadata.a")[1].operation = UPDATE

\* the old_value / new_value the claim C3 prescribes for a dropped or new value
ShapedValue(value) ==
    IF IsScalar(value) THEN value
    ELSE IF HasId(value) THEN StrV(value.id)
    ELSE IF Len(value.items) = 1 THEN StrV(value.items[1].id)
    ELSE ListV([i \in 1..Len(value.items) |-> StrV(value.items[i].id)])

\* the datum list the claim C3 prescribes for a key that one side alone has
OneSidedAsClaimed(data, attribute, operation, value) ==
    IF IsList(value) /\ Len(value.items) = 0
    THEN data = <<>>
    ELSE data = <<PatchDatum(attribute, operation,
                    IF operation = DELETE THEN ShapedValue(value) ELSE NoneV,
                    IF operation = ADD THEN ShapedValue(value) ELSE NoneV)>>

-----------------------------------------------------------------------------
(* Claims about the generic builder *)

\* C1: diffing a resource against itself returns a payload whose data list is
\* empty, whatever the resource and the two flags.
C1_SelfDiffEmpty ==
    (pp_pc = "done" /\ pp_existing = pp_updated) =>
        /\ ~pp_result.raised
        /\ pp_result.data = <<>>

\* the attribute names under which the data of one updatable attribute go out
WireNames(attribute) ==
    {FieldAlias[attribute]}
        \cup (IF attribute = "metadata"
              THEN {MetadataAttribute(MetadataKeys[i]) : i \in 1..Len(MetadataKeys)}
              ELSE {})

\* None on one side and an empty list or mapping on the other
NoneEmptyPair(old_value, new_value) ==
    \/ IsNone(old_value) /\ IsEmptyContainer(new_value)
    \/ IsEmptyContainer(old_value) /\ IsNone(new_value)

\* C4: an updatable attribute (metadata included) that is None on one side and
\* an empty list or empty mapping on the other contributes no datum to the payload.
C4_NoneEmptyEquivalence ==
    pp_pc = "done" =>
        \A i \in 1..Len(UpdatableAttributes) :
            LET attribute == UpdatableAttributes[i]
                own == AttributeDiff(attribute, FieldAlias, pp_existing, pp_updated,
                                     pp_flags.generate_metadata_diff, pp_flags.stringify_values)
            IN  NoneEmptyPair(pp_existing[attribute], pp_updated[attribute]) =>
                    /\ own = Returned(<<>>)
                    /\ ~pp_result.raised =>
                          \A j \in 1..Len(pp_result.data) :
                              pp_result.data[j].attribute \notin WireNames(attribute)

\* C4 witness: a returned payload for an empty list cleared to None, a missing
\* metadata mapping set to {} and a changed name: the name's datum alone
C4_Witness ==
    /\ pp_pc = "done"
    /\ pp_existing.tags = EmptyList /\ pp_updated.tags = NoneV
    /\ pp_existing.metadata = NoneV /\ pp_updated.metadata = EmptyDict
    /\ pp_flags.generate_metadata_diff
    /\ pp_existing.name = StrV(<<"x">>) /\ pp_updated.name = StrV(<<"y">>)
    /\ ~pp_result.raised
    /\ Len(pp_result.data) = 1
    /\ pp_result.data[1].attribute = "name"

\* the per-operation shape of a datum
WellShaped(d) ==
    /\ d.operation = ADD => (~IsNone(d.new_value) /\ IsNone(d.old_value))
    /\ d.operation = DELETE => (~IsNone(d.old_value) /\ IsNone(d.new_value))
    /\ d.operation = UPDATE => (~IsNone(d.old_value) /\ ~IsNone(d.new_value))

\* C5: every datum of a payload is well shaped: an ADD has a new_value and no
\* old_value, a DELETE an old_value and no new_value, an UPDATE both.
C5_DatumShape ==
    (pp_pc = "done" /\ ~pp_result.raised) =>
        \A j \in 1..Len(pp_result.data) : WellShaped(pp_result.data[j])

-----------------------------------------------------------------------------
(* Claims about the lots patch generator *)

InventoryData(data) == SelectSeq(data, LAMBDA d : d.attribute = "inventoryOnHand")

\* a string with a plain integer part, a "." and exactly `places` digits after it
HasFractionalDigits(cs, places) ==
    /\ IsNumeral(cs)
    /\ DotIndex(cs) > 0
    /\ Len(cs) - DotIndex(cs) = places

\* |a| < 10^-places
SmallerThanUnit(a, places) ==
    LET unit == Decimal(FALSE, <<1>>, places)
        scale == Max(a.scale, places)
        len == Max(Len(a.coef) + scale - a.scale, 1 + scale - places)
    IN  DigitsLess(Aligned(a, scale, len), Aligned(unit, scale, len))

\* the case of the claim: both quantities are numbers and they differ
InventoryChanged ==
    /\ lot_pc = "done"
    /\ ~IsNone(lot_updated.inventory_on_hand)
    /\ ~IsNone(lot_existing.inventory_on_hand)
    /\ ~PyEq(lot_updated.inventory_on_hand, lot_existing.inventory_on_hand)

-----------------------------------------------------------------------------
(* Claims about the collection calls *)

\* the indices of the requests of one method
RequestsOf(method) == {i \in 1..Len(c_reqs) : c_reqs[i].method = method}

\* a number that is zero or negative
NotPositive(quantity) ==
    \/ NumberValue(quantity).neg
    \/ NumberValue(quantity).ip = <<0>> /\ NumberValue(quantity).fp = <<>>

\* the calls the claim calls invalid
InvalidQuantity ==
    \/ /\ c_op.name = "adjust"
       /\ c_op.args.action = "ZERO"
       /\ ~IsNone(c_op.args.quantity)
    \/ /\ c_op.name = "adjust"
       /\ c_op.args.action \in {"ADD", "SUBTRACT", "SET"}
       /\ (IsNone(c_op.args.quantity) \/ NotPositive(c_op.args.quantity))
    \/ /\ c_op.name = "transfer"
       /\ IsNumber(c_op.args.quantity)
       /\ NotPositive(c_op.args.quantity)

\* C7: adjust with ZERO and a quantity, adjust with ADD, SUBTRACT or SET and a
\* missing, zero or negative quantity, and transfer with a zero or negative
\* number end in a ValueError, and such a call issues no request at all.
C7_InvalidQuantityRejected ==
    InvalidQuantity =>
        /\ c_reqs = <<>>
        /\ c_pc # "start" => c_pc = "raised" /\ c_ret.kind = "ValueError"

\* adjust(action=SET, quantity=0.0) has raised ValueError with nothing sent
C7_Witness ==
    /\ c_op.name = "adjust"
    /\ c_op.args.action = "SET"
    /\ c_op.args.quantity = FloatV(FALSE, <<0>>, <<0>>)
    /\ c_pc = "raised"
    /\ c_ret.kind = "ValueError"
    /\ c_reqs = <<>>

ValidAdjust == c_op.name = "adjust" /\ ~InvalidQuantity

DecimalOf(number) == ParseDecimal(PyStr(number).chars)

\* the delta and the resulting quantity the claim names, for fetched quantity c
ClaimedDelta(action, c, q) ==
    CASE action = "ADD" -> q
      [] action = "SUBTRACT" -> DecSub(Decimal(FALSE, <<0>>, 0), q)
      [] action = "SET" -> DecSub(q, c)
      [] OTHER -> DecSub(Decimal(FALSE, <<0>>, 0), c)

ClaimedResult(action, c, q) ==
    CASE action = "ADD" -> DecAdd(c, q)
      [] action = "SUBTRACT" -> DecSub(c, q)
      [] action = "SET" -> q
      [] OTHER -> Decimal(FALSE, <<0>>, 0)

DecEqual(a, b) == IsZeroDec(DecSub(a, b))

\* |a - b| <= 5 * 10^-15: b is a rounded to 14 places, or a is b to within such a rounding
WithinRounding(a, b) ==
    LET diff == DecSub(a, b)
        half == Decimal(FALSE, <<5>>, 15)
        scale == Max(diff.scale, 15)
        len == Max(Len(diff.coef) + scale - diff.scale, 1 + scale - 15)
    IN  ~DigitsLess(Aligned(half, scale, len), Aligned(diff, scale, len))

\* the quantity of the call (ZERO has none: any value serves)
AdjustQuantity ==
    IF IsNone(c_op.args.quantity) THEN Decimal(FALSE, <<0>>, 0) ELSE DecimalOf(c_op.args.quantity)

\* one GET, then the only PATCH, with one UPDATE datum for inventoryOnHand
\* whose old_value is str(c)
AdjustRequestsAsClaimed ==
    /\ \A i \in RequestsOf("PATCH") :
          /\ i = 2
          /\ c_reqs[1].method = "GET"
          /\ Len(c_reqs[i].body.data) = 1
          /\ c_reqs[i].body.data[1].attribute = "inventoryOnHand"
          /\ c_reqs[i].body.data[1].operation = UPDATE
          /\ c_reqs[i].body.data[1].old_value = PyStr(c_existing.inventory_on_hand)
          /\ c_reqs[i].body.data[1].new_value.k = "str"
    /\ c_pc \in {"refetch", "done"} => RequestsOf("PATCH") = {2}
    /\ c_pc = "done" => c_ret.kind = "value" /\ c_ret.source = "get"

\* the claim as it stands: new_value is exactly +q, -q, q - c or -c, and the
\* lot returned has exactly c + q, c - q, q or 0
C8_AdjustExact ==
    ValidAdjust =>
        /\ AdjustRequestsAsClaimed
        /\ \A i \in RequestsOf("PATCH") :
              DecEqual(ParseDecimal(c_reqs[i].body.data[1].new_value.chars),
                       ClaimedDelta(c_op.args.action, DecimalOf(c_existing.inventory_on_hand),
                                    AdjustQuantity))
        /\ c_pc = "done" =>
              DecEqual(DecimalOf(c_ret.value.inventory_on_hand),
                       ClaimedResult(c_op.args.action, DecimalOf(c_existing.inventory_on_hand),
                                     AdjustQuantity))

\* C8: a valid adjust fetches the lot once, then sends one PATCH with one
\* UPDATE datum for inventoryOnHand whose old_value is str(c) and whose
\* new_value is the delta (+q, -q, q - c, -c) rounded to 14 decimal places;
\* with a platform that adds the delta, the lot returned has c + q, c - q, q
\* or 0 to within that rounding.
C8_AdjustRounded ==
    ValidAdjust =>
        /\ AdjustRequestsAsClaimed
        /\ \A i \in RequestsOf("PATCH") :
              /\ HasFractionalDigits(c_reqs[i].body.data[1].new_value.chars, 14)
              /\ WithinRounding(ParseDecimal(c_reqs[i].body.data[1].new_value.chars),
                                ClaimedDelta(c_op.args.action,
                                             DecimalOf(c_existing.inventory_on_hand),
                                             AdjustQuantity))
        /\ c_pc = "done" =>
              WithinRounding(DecimalOf(c_ret.value.inventory_on_hand),
                             ClaimedResult(c_op.args.action,
                                           DecimalOf(c_existing.inventory_on_hand),
                                           AdjustQuantity))

\* ADD 1.000000000000005 to 10.0: the PATCH carries "1.00000000000000" and the
\* lot comes back with 11.0
C8_Witness ==
    /\ c_op.name = "adjust"
    /\ c_op.args.action = "ADD"
    /\ c_op.args.quantity = FloatV(FALSE, <<1>>, <<0, 0, 0, 0, 0, 0, 0, 0, 0, 0, 0, 0, 0, 0, 5>>)
    /\ c_pc = "done"
    /\ Len(c_reqs) = 3
    /\ c_reqs[2].body.data =
           <<PatchDatum("inventoryOnHand", UPDATE, StrV(<<"1", "0", ".", "0">>),
                        StrV(<<"1", ".", "0", "0", "0", "0", "0", "0", "0",
                               "0", "0", "0", "0", "0", "0", "0">>))>>
    /\ c_ret.value.inventory_on_hand = FloatV(FALSE, <<1, 1>>, <<0>>)

TransferAll == c_op.name = "transfer" /\ c_op.args.quantity = StrV(<<"A", "L", "L">>)

TransferSome ==
    /\ c_op.name = "transfer"
    /\ IsNumber(c_op.args.quantity)
    /\ ~NotPositive(c_op.args.quantity)

ReturnedNormally == c_pc = "done" /\ c_ret.kind = "value"

\* C9: transfer "ALL" never POSTs and, when it returns, has sent exactly one
\* PATCH, to the lot itself, with the single datum storageLocation UPDATE from
\* the fetched location's id to the destination, and returns the re-fetched
\* lot of the same id. transfer of a positive number never PATCHes and, when it
\* returns, has sent exactly one POST, to the lot's split endpoint, with that
\* quantity, the destination, and the given owner or else the current user's id.
C9_Transfer ==
    /\ TransferAll =>
          /\ RequestsOf("POST") = {}
          /\ ReturnedNormally =>
                /\ \E i \in 1..Len(c_reqs) :
                      /\ RequestsOf("PATCH") = {i}
                      /\ c_reqs[i].path = "/api/v3/lots/LOT1"
                      /\ c_reqs[i].body.data =
                            <<PatchDatum("storageLocation", UPDATE,
                                  IF IsNone(c_existing.storage_location) THEN NoneV
                                  ELSE StrV(c_existing.storage_location.id),
                                  StrV(c_op.args.storage_location_id))>>
                /\ c_ret.source = "get"
                /\ c_reqs[Len(c_reqs)].method = "GET"
                /\ c_ret.value.id = "LOT1"
    /\ TransferSome =>
          /\ RequestsOf("PATCH") = {}
          /\ ReturnedNormally =>
                \E i \in 1..Len(c_reqs) :
                   /\ RequestsOf("POST") = {i}
                   /\ c_reqs[i].path = "/api/v3/lots/LOT1/split"
                   /\ c_reqs[i].body.inventoryOnHand.k = "str"
                   /\ DecEqual(ParseDecimal(c_reqs[i].body.inventoryOnHand.chars),
                               DecimalOf(c_op.args.quantity))
                   /\ c_reqs[i].body.StorageLocation = StrV(c_op.args.storage_location_id)
                   /\ c_reqs[i].body.Owner =
                         <<IF IsNone(c_op.args.owner) THEN c_srv.user_id ELSE c_op.args.owner>>

\* 1.000000000000005 of the lot went to L2 with no owner given: one POST to the
\* split endpoint, owned by the current user U9
C9_Witness ==
    /\ TransferSome
    /\ ReturnedNormally
    /\ c_op.args.owner = NoneV
    /\ c_op.args.quantity = FloatV(FALSE, <<1>>, <<0, 0, 0, 0, 0, 0, 0, 0, 0, 0, 0, 0, 0, 0, 5>>)
    /\ c_reqs[Len(c_reqs)] =
           Request("POST", "/api/v3/lots/LOT1/split",
                   [action |-> "splitted",
                    inventoryOnHand |-> StrV(<<"1", ".", "0", "0", "0", "0", "0", "0", "0",
                                               "0", "0", "0", "0", "0", "0", "0", "5">>),
                    StorageLocation |-> StrV(<<"L", "2">>),
                    Owner |-> <<StrV(<<"U", "9">>)>>])

\* C10: an update() that returns, returns what a GET issued after its last
\* mutating request answered, never the object it was called with.
C10_UpdateReturnsRefetched ==
    c_op.name = "update" /\ c_pc = "done" =>
        /\ c_ret.kind = "value"
        /\ c_ret.source = "get"
        /\ c_reqs[Len(c_reqs)].method = "GET"
        /\ Len(c_reqs) >= 2

-----------------------------------------------------------------------------
(* Claims about failures in the middle of an update() *)

\* the platform after it has answered the requests `requests`, in order
RECURSIVE AfterRequests(_, _, _)
AfterRequests(srv, is_lot, requests) ==
    IF Len(requests) = 0 THEN srv
    ELSE AfterRequests(Served(srv, is_lot, Head(requests)), is_lot, Tail(requests))

\* the platform as the first GET of the update found it
PlatformAtFetch ==
    IF c_op.args.collection = "lots" THEN [c_srv EXCEPT !.lot = c_existing]
    ELSE [c_srv EXCEPT !.res = c_existing]

\* one of the PUTs and PATCHes of an update() has been answered with an error
MutatingRequestFailed ==
    /\ c_op.name = "update"
    /\ c_pc = "raised"
    /\ c_ret.kind = "HTTPError"
    /\ Len(c_todo.requests) > 0

\* C11: when the k-th mutating request of an update() fails, the call ends
\* with that error, the failed request is the last one it issues, and the
\* platform holds exactly the effects of the k-1 requests before it.
C11_FailureStopsUpdate ==
    MutatingRequestFailed =>
        /\ c_reqs[Len(c_reqs)] = Head(c_todo.requests)
        /\ ~ENABLED CallNext
        /\ c_srv = AfterRequests(PlatformAtFetch, c_op.args.collection = "lots",
                                 SubSeq(c_reqs, 2, Len(c_reqs) - 1))

\* a task update whose second PATCH failed: the first one stays applied
C11_Witness ==
    /\ MutatingRequestFailed
    /\ c_op.args.collection = "tasks"
    /\ Len(c_reqs) = 3
    /\ c_reqs[2].method = "PATCH"
    /\ c_reqs[3].method = "PATCH"
    /\ c_srv.res # c_existing
    /\ c_srv.res.name = c_op.args.updated.name
    /\ c_srv.res.assigned_to # c_op.args.updated.assigned_to

-----------------------------------------------------------------------------
(* Claims about the value kinds the metadata differ meets *)

\* C12: whatever kinds the values of the two mappings have (None, scalar,
\* linked entity, list of linked entities, independently on the two sides),
\* the metadata differ returns a payload and does not raise.
C12_DifferNeverRaises ==
    md_pc = "done" => ~md_result.raised

\* a mapping without its keys of value None
WithoutNoneKeys(metadata) ==
    IF IsNone(metadata) THEN metadata
    ELSE DictV([key \in {k \in DOMAIN metadata.map : ~IsNone(metadata.map[k])} |->
                    metadata.map[key]])

\* C17: a key mapped to None counts as a missing key, on either side: the
\* differ's result is the one it gives for the two mappings with their
\* None-valued keys left out.
C17_MissingKeyIsNone ==
    md_pc = "done" =>
        md_result = GenerateMetadataDiff(WithoutNoneKeys(md_existing),
                                         WithoutNoneKeys(md_updated))

-----------------------------------------------------------------------------
(* Claims about the enum value patches *)

SameEntries(s, t) ==
    \A x \in {s[i] : i \in DOMAIN s} \cup {t[i] : i \in DOMAIN t} :
        Cardinality({i \in DOMAIN s : s[i] = x}) = Cardinality({i \in DOMAIN t : t[i] = x})

\* the entries the enum patch list is to consist of
EnumEntriesExpected(existing_enum, updated_enum) ==
    LET no_id(x) == IsNone(x.id)
        absent(x) == x.id \notin EnumIds(SelectSeq(updated_enum, HasEnumId))
        text_changed(x) ==
            /\ HasEnumId(x)
            /\ x.id \in EnumIds(existing_enum)
            /\ x.text # ExistingEnumText(existing_enum, x.id)
    IN  MapSeq(EnumAdd, SelectSeq(updated_enum, no_id))
            \o MapSeq(EnumDelete, SelectSeq(existing_enum, absent))
            \o MapSeq(EnumUpdate, SelectSeq(updated_enum, text_changed))

\* C13: for any existing and updated enum value lists the enum patch list
\* consists of exactly one add (by text) per updated item without an id, one
\* delete (by id) per existing id absent from updated, and one update (id,
\* text) per id present in both whose text changed; an id present in both
\* with unchanged text produces no entry.
C13_EnumPatchesExact ==
    en_pc \in {"generate_enum_patches", "_add_param_enums"} =>
        SameEntries(en_result,
                    EnumEntriesExpected(SelectSeq(en_existing, IsEnumValidationValue),
                                        SelectSeq(en_updated, IsEnumValidationValue)))

-----------------------------------------------------------------------------
(* Claims about the child comparators *)

Partitioned == ch_pc \in {"partitioned", "done"}

InGroup(child, group) == \E i \in DOMAIN group : group[i] = child

MatchesOneOf(child, children) ==
    /\ ~NoSequence(child)
    /\ \E i \in DOMAIN children : children[i].sequence = child.sequence

\* C19: the comparators split the children into three disjoint groups that
\* cover all of them: every updated child is in exactly one of new (its
\* sequence is missing or matches no existing child) or matched (its sequence
\* matches an existing child); every existing child is either deleted (its
\* sequence matches no updated child) or the counterpart of a matched child;
\* no child is both new and matched; a child without a sequence is never
\* matched.
C19_ChildrenPartitioned ==
    Partitioned =>
        /\ Len(ch_parts.new) + Len(ch_parts.matched) = Len(ChildrenOrEmpty(ch_updated))
        /\ \A i \in DOMAIN ChildrenOrEmpty(ch_updated) :
              /\ InGroup(ch_updated.items[i], ch_parts.new)
                    = ~MatchesOneOf(ch_updated.items[i], ChildrenOrEmpty(ch_initial))
              /\ InGroup(ch_updated.items[i], ch_parts.matched)
                    = MatchesOneOf(ch_updated.items[i], ChildrenOrEmpty(ch_initial))
        /\ \A i \in DOMAIN ChildrenOrEmpty(ch_initial) :
              /\ InGroup(ch_initial.items[i], ch_parts.deleted)
                    = ~MatchesOneOf(ch_initial.items[i], ChildrenOrEmpty(ch_updated))
              /\ MatchesOneOf(ch_initial.items[i], ch_parts.matched)
                    = ~InGroup(ch_initial.items[i], ch_parts.deleted)
        /\ \A i \in DOMAIN ch_parts.new : ~InGroup(ch_parts.new[i], ch_parts.matched)
        /\ \A i \in DOMAIN ch_parts.matched : ~NoSequence(ch_parts.matched[i])
        /\ Len(ch_parts.deleted) + Len(ch_parts.matched) = Len(ChildrenOrEmpty(ch_initial))

\* a child without a sequence is new, another is matched and an existing one deleted
C19_Witness ==
    /\ ch_pc = "partitioned"
    /\ Len(ch_parts.new) = 1
    /\ NoSequence(ch_parts.new[1])
    /\ Len(ch_parts.matched) = 1
    /\ Len(ch_parts.deleted) = 1
    /\ ch_parts.deleted[1].sequence # ch_parts.matched[1].sequence

\* the data of a patch list with the child each is addressed to: a datum of
\* a parameter by its rowId, a datum of a data column by its colId, and an
\* action of a GeneralPatchDatum by the colId of the datum that holds it
AddressOf(datum) == IF datum.k = "PGPatchDatum" THEN datum.rowId ELSE datum.colId

ActionAddressed(colId, actions) == [i \in DOMAIN actions |-> [actions[i] EXCEPT !.colId = colId]]

RECURSIVE AddressedData(_)
AddressedData(patches) ==
    IF Len(patches) = 0 THEN <<>>
    ELSE (IF Head(patches).k = "GeneralPatchDatum"
          THEN ActionAddressed(Head(patches).colId, Head(patches).actions)
          ELSE <<Head(patches)>>) \o AddressedData(Tail(patches))

SubAttributes == {"unit", "value", "validation"}

AttributeNames(sub) == IF sub = "unit" THEN {"unit", "unitId"} ELSE {sub}

UnitChanged(existing, updated) ==
    IF IsNone(existing.unit) \/ IsNone(updated.unit) THEN IsNone(existing.unit) # IsNone(updated.unit)
    ELSE existing.unit.id # updated.unit.id

\* a sub-attribute changed: the unit by its id, the validation apart from the
\* enum values, which are compared on their own
SubAttributeChanged(existing, updated, sub) ==
    IF sub = "unit" THEN UnitChanged(existing, updated)
    ELSE IF sub = "value" THEN existing.value # updated.value
    ELSE ClearEnumValues(existing.validation) # ClearEnumValues(updated.validation)

DataAddressedTo(data, sequence, sub) ==
    Cardinality({i \in DOMAIN data : AddressOf(data[i]) = sequence /\ data[i].attribute \in AttributeNames(sub)})

\* the two lists have the same children but for the value of the child at i
DifferOnlyInValueAt(initial, updated, i) ==
    /\ Len(initial) = Len(updated)
    /\ i \in DOMAIN initial
    /\ initial[i].value # updated[i].value
    /\ updated = [initial EXCEPT ![i].value = updated[i].value]

\* C14: for every matched child the patch list holds one datum per changed
\* sub-attribute among unit, value and validation, addressed to the child's
\* sequence (rowId for parameters, colId for data columns), and none for an
\* unchanged sub-attribute; when only one parameter's value differs the
\* result is exactly one PGPatchDatum: update of "value" with that rowId.
C14_MatchedChildData ==
    ch_pc = "done" =>
        /\ ~ch_result.raised
        /\ \A i \in DOMAIN ch_parts.matched : \A sub \in SubAttributes :
              DataAddressedTo(AddressedData(ch_result.patches), ch_parts.matched[i].sequence, sub)
                  = IF SubAttributeChanged(InitialChild(ch_initial.items, ch_parts.matched[i]),
                                           ch_parts.matched[i], sub) THEN 1 ELSE 0
        /\ \A i \in DOMAIN ChildrenOrEmpty(ch_initial) :
              (/\ ch_kind = "parameter"
               /\ DifferOnlyInValueAt(ChildrenOrEmpty(ch_initial), ChildrenOrEmpty(ch_updated), i))
                  => ch_result.patches
                        = <<PGPatchDatum(UPDATE, "value", ch_initial.items[i].value,
                                         ch_updated.items[i].value, ch_initial.items[i].sequence)>>

-----------------------------------------------------------------------------
(* Claims about the paginator *)

\* C15: a paginator built with max_items = n never yields more than n items,
\* in OFFSET and in KEY mode, for every n >= 0 and every sequence of pages.
C15_MaxItemsBound == ~IsNone(pg_cfg.max_items) => pg_out <= pg_cfg.max_items.n

-----------------------------------------------------------------------------
(* Claims about the builder's rule for one attribute *)

\* str(value) when the collection asks for strings
AsSent(value, stringify_values) == IF stringify_values THEN PyStr(value) ELSE value

\* the data under one wire name, in payload order
DataNamed(data, name) == SelectSeq(data, LAMBDA d : d.attribute = name)

\* the data the rule asks for, given the two values after the coercion
RuleData(alias, pair, stringify_values) ==
    IF IsNone(pair[1]) /\ ~IsNone(pair[2])
    THEN <<PatchDatum(alias, ADD, NoneV, AsSent(pair[2], stringify_values))>>
    ELSE IF ~IsNone(pair[1]) /\ ~PyEq(pair[1], pair[2])
    THEN <<PatchDatum(alias, UPDATE, AsSent(pair[1], stringify_values), AsSent(pair[2], stringify_values))>>
    ELSE <<>>

NonMetadataAttributes == {"name", "tags"}

\* C16: for each non-metadata updatable attribute, after the None/empty
\* coercion, the payload holds exactly one ADD carrying new_value when the old
\* value is None and the new one is not, exactly one UPDATE carrying both
\* values when the old value is not None and differs from the new one, and
\* nothing when the values are equal; the datum is named by the field's
\* serialization alias.
C16_AttributeRule ==
    (pp_pc = "done" /\ ~pp_result.raised) =>
        \A attribute \in NonMetadataAttributes :
            DataNamed(pp_result.data, FieldAlias[attribute])
                = RuleData(FieldAlias[attribute],
                           CoerceEmpty(pp_existing[attribute], pp_updated[attribute]),
                           pp_flags.stringify_values)

\* C16 witness: one payload with the ADD of a name and the UPDATE of the tags,
\* the latter under the alias "Tags"
C16_Witness ==
    /\ pp_pc = "done"
    /\ ~pp_result.raised
    /\ IsNone(pp_existing.name) /\ pp_updated.name = StrV(<<"x">>)
    /\ pp_existing.tags = ListV(<<E1>>) /\ pp_updated.tags = ListV(<<E1, E2>>)
    /\ ~pp_flags.stringify_values
    /\ DataNamed(pp_result.data, "name") = <<PatchDatum("name", ADD, NoneV, StrV(<<"x">>))>>
    /\ DataNamed(pp_result.data, "Tags") = <<PatchDatum("Tags", UPDATE, ListV(<<E1>>), ListV(<<E1, E2>>))>>
    /\ DataNamed(pp_result.data, "tags") = <<>>

-----------------------------------------------------------------------------
(* Claims about the inventory of a lot that may be None *)

\* new_value is a delta: a numeral d with existing + d = updated to within the
\* 14th decimal place, which takes both quantities to be numbers
IsInventoryDelta(new_value, existing, updated) ==
    /\ ~IsNone(existing.inventory_on_hand)
    /\ ~IsNone(updated.inventory_on_hand)
    /\ new_value.k = "str"
    /\ IsNumeral(new_value.chars)
    /\ SmallerThanUnit(
           DecSub(DecAdd(ParseDecimal(PyStr(existing.inventory_on_hand).chars),
                         ParseDecimal(new_value.chars)),
                  ParseDecimal(PyStr(updated.inventory_on_hand).chars)),
           14)

\* C18: no payload of the lots generator carries inventory_on_hand as an
\* absolute value: for every pair of lots, either inventory being None
\* included, every datum named inventoryOnHand has as new_value the delta
\* updated - existing.
C18_InventoryNeverAbsolute ==
    (lot_pc = "done" /\ ~lot_result.raised) =>
        \A i \in DOMAIN lot_result.data :
            lot_result.data[i].attribute = "inventoryOnHand" =>
                IsInventoryDelta(lot_result.data[i].new_value, lot_existing, lot_updated)

-----------------------------------------------------------------------------
(* Claims about the payload of an entity type *)

\* the data a flattened object is to go out as: one UPDATE per differing leaf
LeafDataExpected(parent, attribute) ==
    IF IsNone(et_updated[attribute]) \/ IsNone(et_existing[attribute]) THEN <<>>
    ELSE LeafLoop(parent, LeafFields(attribute), et_existing[attribute], et_updated[attribute])

DataUnder(data, parent) ==
    SelectSeq(data, LAMBDA d : \E i \in DOMAIN LeafFields("standard_field_visibility") :
        d.attribute \in {parent \o "." \o LeafFields("standard_field_visibility")[i].alias,
                         parent \o "." \o LeafFields("search_query_string")[i].alias})

\* C20: in the payload EntityTypeCollection.update sends, custom_fields
\* appears only as one whole-list datum (ADD when the existing list is None,
\* UPDATE when both lists are present); standard_field_visibility and
\* search_query_string appear only as per-leaf UPDATE data named
\* "<parent alias>.<leaf alias>", one per differing leaf and none for an
\* unchanged leaf; there is no whole-object datum for either and no second
\* customFields datum.
C20_EntityTypePayload ==
    (et_pc = "done" /\ ~et_result.raised) =>
        /\ DataNamed(et_result.data, "customFields") = CustomFieldsPatches(et_existing, et_updated)
        /\ DataNamed(et_result.data, "standardFieldVisibility") = <<>>
        /\ DataNamed(et_result.data, "searchQueryString") = <<>>
        /\ DataUnder(et_result.data, "standardFieldVisibility")
              = LeafDataExpected("standardFieldVisibility", "standard_field_visibility")
        /\ DataUnder(et_result.data, "searchQueryString")
              = LeafDataExpected("searchQueryString", "search_query_string")

-----------------------------------------------------------------------------
(* Claims about the domain-specific generators run on equal snapshots *)

NoEnumOperations(enum_patches) == \A i \in DOMAIN enum_patches : enum_patches[i].patches = <<>>

\* C21: the domain-specific generators are idempotent: when updated equals
\* existing, the lots generator, the entity-type special-attribute generator,
\* the parameter and data-column comparators and the enum diff each return no
\* patch datum and no enum operation.
C21_GeneratorsIdempotent ==
    /\ (et_pc = "done" /\ et_existing = et_updated) =>
          GenerateSpecialAttributePatches(et_existing, et_updated) = Returned(<<>>)
    /\ (lot_pc = "done" /\ lot_existing = lot_updated) => lot_result = Returned(<<>>)
    /\ (en_pc = "generate_enum_patches" /\ en_existing = en_updated) => en_result = <<>>
    /\ (ch_pc = "done" /\ ch_initial = ch_updated) =>
          /\ ~ch_result.raised
          /\ ch_result.patches = <<>>
          /\ NoEnumOperations(ch_result.enum_patches)

-----------------------------------------------------------------------------
(* Claims about the requests of DataTemplateCollection.update *)

TemplateUpdate == c_op # <<>> /\ c_op.name = "update" /\ c_op.args.collection = "datatemplates"

TemplatePath == ResourcePath("datatemplates", c_op.args.updated.id)

IsEnumPut(request) ==
    /\ request.method = "PUT"
    /\ request.path \in {TemplatePath \o "/datacolumns/enums", TemplatePath \o "/parameters/enums"}

IsParametersPatch(request) ==
    request.method = "PATCH" /\ request.path = TemplatePath \o "/parameters"

IsGeneralPatch(request) == request.method = "PATCH" /\ request.path = TemplatePath

IsTemplateGet(request) == request.method = "GET" /\ request.path = TemplatePath

\* C22: within one update of a data template every enum PUT precedes every
\* PATCH on the parameters endpoint, every parameters PATCH precedes the
\* general PATCH on the template, and the GET whose answer update() returns
\* comes after all of them.
C22_RequestOrder ==
    TemplateUpdate =>
        /\ \A i, j \in DOMAIN c_reqs :
              /\ (IsEnumPut(c_reqs[i]) /\ IsParametersPatch(c_reqs[j])) => i < j
              /\ (IsParametersPatch(c_reqs[i]) /\ IsGeneralPatch(c_reqs[j])) => i < j
              /\ (IsEnumPut(c_reqs[i]) /\ IsGeneralPatch(c_reqs[j])) => i < j
        /\ c_pc = "done" =>
              /\ IsTemplateGet(c_reqs[Len(c_reqs)])
              /\ \A i \in DOMAIN c_reqs :
                    (c_reqs[i].method \in {"PUT", "PATCH"}) => i < Len(c_reqs)

C22_Witness ==
    /\ TemplateUpdate
    /\ c_pc = "done"
    /\ \E i, j, k, l \in DOMAIN c_reqs :
          /\ c_reqs[i].method = "PUT" /\ c_reqs[i].path = TemplatePath \o "/datacolumns/enums"
          /\ c_reqs[j].method = "PUT" /\ c_reqs[j].path = TemplatePath \o "/parameters/enums"
          /\ IsParametersPatch(c_reqs[k])
          /\ IsGeneralPatch(c_reqs[l])

\* a PATCH on the parameters endpoint that carries the validation UPDATE built
\* from the enums an enum PUT returned
IsEnumValidationPatch(request) ==
    /\ IsParametersPatch(request)
    /\ \E i \in DOMAIN request.body.parameters : request.body.parameters[i] = "enum_validation"

\* C28: when update() of a data template returns and the enum PUT of a
\* parameter sequence has returned a non-empty enum list, a validation UPDATE
\* for that sequence has been sent to the parameters endpoint, whether or not
\* a parameter produced any other patch.
C28_EnumValidationSent ==
    (TemplateUpdate /\ c_pc = "done" /\ c_op.args.changes.parameter_enums) =>
        \E i \in DOMAIN c_reqs : IsEnumValidationPatch(c_reqs[i])

-----------------------------------------------------------------------------
(* Claims about update() with nothing to send *)

\* the data of everything update() has generated from the two snapshots
GeneratedData(collection, existing, updated) ==
    UpdatePayload(collection, existing, updated).data
    \o (CASE collection = "entitytypes" -> SpecialAttributePatches(existing, updated)
          [] collection = "tasks" -> AssignedToPatches(existing, updated)
          [] OTHER -> <<>>)

\* update() has fetched the stored resource and generated an empty payload
EmptyPayload ==
    /\ c_op # <<>>
    /\ c_op.name = "update"
    /\ c_existing # NoneV
    /\ ~UpdatePayload(c_op.args.collection, c_existing, c_op.args.updated).raised
    /\ GeneratedData(c_op.args.collection, c_existing, c_op.args.updated) = <<>>
    /\ c_op.args.changes = NoChanges

\* C27: when the payload update() has generated is empty, update() sends no
\* PATCH and no PUT: its only requests are GETs.
C27_EmptyPayloadOnlyGets ==
    EmptyPayload => \A i \in DOMAIN c_reqs : c_reqs[i].method = "GET"

-----------------------------------------------------------------------------
(* Claims about the values the generators put into their data *)

\* a scalar, an entity id, a collection of entity ids, or a value not given:
\* no linked-entity object and no list of them
IsIdOrScalar(v) ==
    CASE v.k \in {"None", "str", "int", "float"} -> TRUE
      [] v.k = "list" -> \A i \in DOMAIN v.items : IsScalar(v.items[i])
      [] v.k = "set" -> \A x \in v.elems : IsScalar(x)
      [] OTHER -> FALSE

\* C25: every old_value and new_value of a datum the metadata differ returns
\* is a scalar, an entity id or a collection of entity ids, never a
\* linked-entity object or a list of them, also when the kind of the value
\* changes between the two mappings.
C25_DifferValuesAreIds ==
    (md_pc = "done" /\ ~md_result.raised) =>
        \A i \in DOMAIN md_result.data :
            /\ IsIdOrScalar(md_result.data[i].old_value)
            /\ IsIdOrScalar(md_result.data[i].new_value)

\* C26: with stringify_values enabled the builder never turns a missing value
\* into text: no old_value and no new_value of its data is the string "None"
\* (no attribute of the two snapshots is that string), so that clearing an
\* attribute is sent as null.
C26_NoneNeverStringified ==
    (pp_pc = "done" /\ pp_flags.stringify_values /\ ~pp_result.raised) =>
        \A i \in DOMAIN pp_result.data :
            /\ pp_result.data[i].old_value # StrV(Chars_None)
            /\ pp_result.data[i].new_value # StrV(Chars_None)

-----------------------------------------------------------------------------
(* Claims about the comparison of validation lists *)

\* the two validation lists are not the same, and are the same once the
\* original_text of their enum values is left out
DifferOnlyInOriginalText(existing, updated) ==
    /\ existing.validation # updated.validation
    /\ NormalizeValidation(existing.validation) = NormalizeValidation(updated.validation)

\* C24: when the validation lists of a matched parameter or data column
\* differ only in the original_text of enum values, no datum named
\* "validation" is addressed to the child, whatever the number of entries of
\* the validation list.
C24_OriginalTextIgnored ==
    (ch_pc = "done" /\ ~ch_result.raised) =>
        \A i \in DOMAIN ch_parts.matched :
            DifferOnlyInOriginalText(InitialChild(ch_initial.items, ch_parts.matched[i]),
                                     ch_parts.matched[i])
                => DataAddressedTo(AddressedData(ch_result.patches),
                                   ch_parts.matched[i].sequence, "validation") = 0

-----------------------------------------------------------------------------
(* Claims about what the generators and update() leave alone *)

\* C23: patch generation and update() leave both snapshots untouched: no step
\* changes a field of the caller's updated list of children (validations
\* included) or of the fetched existing one.
C23_SnapshotsUntouched ==
    [][ch_updated' = ch_updated /\ ch_initial' = ch_initial]_vars

-----------------------------------------------------------------------------
(* Claims about two adjust calls on one lot *)

\* both calls add or subtract, and the platform has applied both PATCHes
BothApplied ==
    /\ ad_pc # <<>>
    /\ \A i \in 1..2 :
          /\ ad_calls[i].action \in {"ADD", "SUBTRACT"}
          /\ ad_pc[i] \in {"refetch", "done"}

\* +q for ADD, -q for SUBTRACT
SignedQuantity(call) ==
    IF call.action = "ADD" THEN DecimalOf(call.quantity) ELSE DecNeg(DecimalOf(call.quantity))

\* the claim as it stands: the stored quantity is exactly the initial one plus
\* the two signed quantities
C29_ExactSum ==
    BothApplied =>
        DecEqual(DecimalOf(ad_lot.inventory_on_hand),
                 DecAdd(DecAdd(DecimalOf(ad_initial), SignedQuantity(ad_calls[1])),
                        SignedQuantity(ad_calls[2])))

\* C29: with a platform that adds each inventoryOnHand delta to the stored
\* quantity, two adjust calls with actions ADD or SUBTRACT on one lot leave,
\* in every interleaving of their GETs and PATCHes, the initial quantity plus
\* the two signed quantities, each rounded half-even to 14 decimal places.
C29_RoundedSum ==
    BothApplied =>
        DecEqual(DecimalOf(ad_lot.inventory_on_hand),
                 DecAdd(DecAdd(DecimalOf(ad_initial),
                               Quantize(SignedQuantity(ad_calls[1]), DeltaPlaces)),
                        Quantize(SignedQuantity(ad_calls[2]), DeltaPlaces)))

\* both calls fetched the lot before either patched it, and both PATCHes have
\* been applied: ADD 5.0 and SUBTRACT 2.5
C29_Witness ==
    /\ BothApplied
    /\ ad_calls[1] = [action |-> "ADD", quantity |-> FloatV(FALSE, <<5>>, <<0>>)]
    /\ ad_calls[2] = [action |-> "SUBTRACT", quantity |-> FloatV(FALSE, <<2>>, <<5>>)]
    /\ \A i \in 1..2 : ad_existing[i] = StoredLot(ad_initial, NoneV, NoneV)
    /\ ad_pc = <<"done", "done">>

-----------------------------------------------------------------------------
(* Claims about the legacy paginator *)

\* C30: when the legacy paginator stops, it has yielded every item of every
\* page it fetched for which deserialize returned a value, the items of a
\* last page shorter than the limit included.
C30_EveryFetchedItemYielded ==
    lp_pc = "done" => lp_yielded = lp_fetched

====
